---- MODULE Spec2Model ----
(***************************************************************************)
(* State-machine model of the nebula-hand application:                     *)
(*   - App (src/data.ts): React state, the gesture handler, the phrase      *)
(*     cache, the body selection;                                          *)
(*   - useHandTracking (src/hooks/useHandTracking.ts): landmarker           *)
(*     initialisation and the requestAnimationFrame prediction loop;       *)
(*   - generateCreativePhrases (src/services/geminiService.ts);            *)
(*   - getSafeColor and the per-frame driver                               *)
(*     (src/components/ParticleSystem.tsx).                                *)
(*   - audioService (src/services/audioService.ts): the mute state, the   *)
(*     ambient start-up and the drone, driven by the page's click         *)
(*     handlers (src/data.ts:231-245).                                     *)
(*                                                                         *)
(* React state is kept in three copies, as React keeps it:                 *)
(*   st        the state with every queued update applied (what the next   *)
(*             render will see; functional updaters run against it);       *)
(*   committed the state of the last committed render (what is displayed,  *)
(*             and what the closures created by that render captured);     *)
(*   handler   the values captured by the handleHandUpdate closure that    *)
(*             the currently scheduled predict callback calls.  It is      *)
(*             replaced only when the passive effects of a commit run      *)
(*             (useHandTracking.ts:110-117).                               *)
(***************************************************************************)
EXTENDS Integers, Sequences, FiniteSets, TLC

\* ------------------------------------------------------------------ bounds
MaxSamples == 3          \* gesture samples delivered in one behaviour
MaxTicks == 1            \* clock advances in one behaviour
TicksPerCooldown == 1    \* clock granularity: ticks that make up one cooldown
MaxRegens == 2           \* runs of the particle generator in one behaviour
MaxFrames == 2           \* animation frames of the mounted component
MaxRenders == 3          \* renders of App the prediction loop lives through
MaxCallbacks == 3        \* animation-frame callbacks of the prediction loop
MaxCalls == 3            \* startAmbient calls suspended at an await at once
MaxToggles == 2          \* clicks on the mute button in one behaviour
NumBodies == 3           \* catalog entries taken from CELESTIAL_BODIES
MaxPalette == 3          \* longest palette handed to getSafeColor

\* --------------------------------------------------------------- constants
COOLDOWN_MS == 3000
LOW_WATER == 3
PREFETCH_COUNT == 5
TOPUP_COUNT == 5
FILL_COUNT == 3

TickMs == COOLDOWN_MS \div TicksPerCooldown

\* Date.now() at mount: any value at least one cooldown after the epoch
\* (lastPhraseTime starts at 0, so the first trigger is always accepted).
ClockStart == 2 * COOLDOWN_MS

RECURSIVE Pow10(_)
Pow10(n) == IF n = 0 THEN 1 ELSE 10 * Pow10(n - 1)

\* expansion is kept as an exact decimal fraction: the value e stands for
\* e / Scale, and MaxSamples smoothing steps stay exact.
Scale == Pow10(MaxSamples)

\* hand positions and rotation influence are kept in tenths
PosUnit == Pow10(1)

\* particle coordinates are kept in ten-thousandths, the expansion prop of the
\* particle system in tenths
AnimUnit == Pow10(4)
ExpUnit == Pow10(1)

\* ------------------------------------------------------------ data.ts:4-105
CELESTIAL_BODIES ==
  << "Sun", "Mercury", "Venus", "Earth", "Moon", "Mars",
     "Jupiter", "Saturn", "Uranus", "Neptune", "Pluto" >>

Catalog == SubSeq(CELESTIAL_BODIES, 1, NumBodies)

\* ------------------------------------------- geminiService.ts:8-47
FALLBACK_EMPTY ==
  << "The universe is within you.", "We are made of star stuff.",
     "Shine bright like a diamond." >>

FALLBACK_ERROR ==
  << "In the silence of space, we find our rhythm.",
     "Every atom in you came from a star that exploded.",
     "Gravity is just the universe hugging you.",
     "Look up, and get lost in the dark.",
     "We are the universe experiencing itself." >>

\* A JavaScript value of type string[] | undefined.  "poison" marks a queued
\* state updater that throws a TypeError when the next render runs it.
List(items) == [tag |-> "list", items |-> items]
Undefined == [tag |-> "undefined", items |-> << >>]
Poison == [tag |-> "poison", items |-> << >>]

\* What the text-generation service can do with one request.
ServiceOutcomes ==
  { [kind |-> "throws", phrases |-> << >>],        \* generateContent throws
    [kind |-> "rejects", phrases |-> << >>],       \* its promise rejects
    [kind |-> "emptyText", phrases |-> << >>],     \* response.text is empty
    [kind |-> "badJson", phrases |-> << >>],       \* JSON.parse throws
    [kind |-> "jsonNull", phrases |-> << >>],      \* text is "null"
    [kind |-> "noPhrases", phrases |-> << >>],     \* text is "{}"
    [kind |-> "phrases", phrases |-> << >>],
    [kind |-> "phrases", phrases |-> << "a", "b" >>] }

\* The value the promise of generateCreativePhrases resolves to.
generateCreativePhrases(o) ==
  CASE o.kind \in {"throws", "rejects", "badJson", "jsonNull"} ->
         List(FALLBACK_ERROR)
    [] o.kind = "emptyText" -> List(FALLBACK_EMPTY)
    [] o.kind = "noPhrases" -> Undefined
    [] OTHER -> List(o.phrases)

IsList(v) == v.tag = "list"

Max(a, b) == IF a >= b THEN a ELSE b
Min(a, b) == IF a <= b THEN a ELSE b
Abs(a) == IF a >= 0 THEN a ELSE -a

\* ------------------------------------------------------------------ state
VARIABLES
  st,             \* React state of App / useHandTracking, queued updates applied
  committed,      \* React state of the last committed render
  handler,        \* values captured by the scheduled handleHandUpdate closure
  effectsPending, \* a commit whose passive effects have not run yet
  rafPending,     \* requestRef: a predict callback is scheduled
  videoRefSet,    \* videoRef.current is the webcam's video element
  tracker,        \* initLandmarker: "idle", "loading", "ready", "failed"
  now,            \* Date.now()
  lastPhraseTime, \* lastPhraseTime.current
  inflight,       \* outstanding generateCreativePhrases calls
  fault,          \* "none", "rejection" (unhandled), "crash" (render threw)
  prevSample,     \* isOpen of the previous gesture sample (stream history)
  sampleCount,    \* gesture samples delivered so far
  ev,             \* what the last step did
  colorIn,        \* getSafeColor: the arguments of the call
  colorOut,       \* getSafeColor: the value returned
  anim,           \* ParticleSystem: props, one particle coordinate, the clock
  sel,            \* changeCelestialBody: the do-while loop, draw by draw
  gen,            \* one regeneration: descriptor, index, draws, arrays there
  ps,             \* ParticleSystem: the arrays at one particle index
  loop,           \* useHandTracking: the frame requests of the predict loop
  audio           \* audioService: its fields, its drone and its pending calls

appVars ==
  << st, committed, handler, effectsPending, rafPending, videoRefSet, tracker,
     now, lastPhraseTime, inflight, fault, prevSample,
     sampleCount, ev >>

colorVars == << colorIn, colorOut >>

vars == << appVars, colorVars, anim, sel, gen, ps, loop, audio >>

\* data.ts:124-139 and useHandTracking.ts:11-12
InitialState ==
  [ expansion |-> Scale,
    isHandOpen |-> TRUE,
    currentPhrase |-> "Breathe with the universe.",
    phrasesCache |-> List(<< >>),
    isMuted |-> FALSE,
    currentBody |-> CELESTIAL_BODIES[1],
    handRotation |-> << 0, 0 >>,
    isReady |-> FALSE,
    error |-> FALSE ]

\* The values a render's handleHandUpdate closure captures.
Closure(c) ==
  [ isHandOpen |-> c.isHandOpen,
    isMuted |-> c.isMuted,
    currentBody |-> c.currentBody,
    phrasesCache |-> c.phrasesCache ]

NoEvent(kind) ==
  [ kind |-> kind,
    rising |-> FALSE,        \* the sample stream went closed -> open
    falling |-> FALSE,       \* the sample stream went open -> closed
    noHand |-> FALSE,        \* the tracker returned no landmarks
    target |-> 0,            \* the expansion target of the sample
    trigCall |-> FALSE,      \* triggerNewPhrase was called
    trigAccepted |-> FALSE,  \* ... and passed the cooldown
    consumed |-> FALSE,      \* ... and took a phrase from the cache
    bodyCall |-> FALSE,      \* changeCelestialBody was called
    bodyFrom |-> "",         \* the currentBody that call compared against
    expandCue |-> FALSE,     \* audioService.playExpand was called
    contractCue |-> FALSE,   \* audioService.playContract was called
    expandPlayed |-> FALSE,  \* ... and the expand sound was started
    contractPlayed |-> FALSE,\* ... and the contract sound was started
    issued |-> 0,            \* generateCreativePhrases calls started
    resolved |-> Undefined ] \* value a generateCreativePhrases call resolved to

AppInit ==
  /\ st = InitialState
  /\ committed = InitialState
  /\ handler = Closure(InitialState)
  /\ effectsPending = TRUE
  /\ rafPending = FALSE
  /\ videoRefSet = FALSE
  /\ tracker = "idle"
  /\ now = ClockStart
  /\ lastPhraseTime = 0
  /\ inflight = << >>
  /\ fault = "none"
  /\ prevSample = TRUE
  /\ sampleCount = 0
  /\ ev = NoEvent("init")

Running == fault # "crash"

\* --------------------------------------------------- data.ts:142-216 (App)

ExpansionStep_Snap(prev, target) == target

\* data.ts:146  setExpansion(prev => prev + (target - prev) * 0.1)
ExpansionStep(prev, target) == prev + (target - prev) \div 10

\* data.ts:162-164
RotationOf(pos) == << (PosUnit \div 2 - pos[1]) * 2, (pos[2] - PosUnit \div 2) * 2 >>

\* data.ts:197  prev.slice(1), run by React against the queued state
Slice1(c) ==
  IF c.tag = "list"
  THEN List(IF c.items = << >> THEN << >> ELSE Tail(c.items))
  ELSE Poison

\* data.ts:202  [...prev, ...newPhrases]
Append2(c, r) ==
  IF c.tag = "list" /\ r.tag = "list" THEN List(c.items \o r.items) ELSE Poison

\* data.ts:210, 215  setPhrasesCache(value): the value is queued behind the
\* updaters already there, so an updater that throws still throws in the
\* next render
SetCache(c, value) ==
  IF c.tag = "poison" THEN Poison ELSE value

\* data.ts:192  the cooldown test
InCooldown(t, last) == t - last < COOLDOWN_MS

\* data.ts:200  the low-water test, made on the cache the closure captured
NeedsTopUp(cache) == Len(cache.items) < LOW_WATER

\* data.ts:190-212, up to the first await.  h is the closure, s the queued
\* state; the result carries the new queued state, the new lastPhraseTime,
\* the calls started and whether the async function's promise rejected.
triggerNewPhrase(h, s, last, t) ==
  IF InCooldown(t, last)
  THEN [ accepted |-> FALSE, consumed |-> FALSE, last |-> last, st |-> s,
         calls |-> << >>, rejected |-> FALSE ]
  ELSE IF h.phrasesCache.tag # "list"
  THEN \* phrasesCache.length on undefined: TypeError inside the async function
       [ accepted |-> TRUE, consumed |-> FALSE, last |-> t, st |-> s,
         calls |-> << >>, rejected |-> TRUE ]
  ELSE IF Len(h.phrasesCache.items) > 0
  THEN [ accepted |-> TRUE, consumed |-> TRUE, last |-> t,
         st |-> [s EXCEPT !.phrasesCache = Slice1(@),
                          !.currentPhrase = h.phrasesCache.items[1]],
         calls |-> IF NeedsTopUp(h.phrasesCache)
                   THEN << [kind |-> "topup", count |-> TOPUP_COUNT] >>
                   ELSE << >>,
         rejected |-> FALSE ]
  ELSE [ accepted |-> TRUE, consumed |-> FALSE, last |-> t,
         st |-> [s EXCEPT !.currentPhrase = "Drifting in starlight..."],
         calls |-> << [kind |-> "fill", count |-> FILL_COUNT] >>,
         rejected |-> FALSE ]

\* data.ts:167-176  the bodies the do-while loop can end on
changeCelestialBody(current) ==
  { Catalog[i] : i \in { j \in 1..Len(Catalog) : Catalog[j] # current } }

\* data.ts:149 and data.ts:153  the edge tests, made on the closure's value
DetectsOpen(h, isOpen) == ~h.isHandOpen /\ isOpen
DetectsClose(h, isOpen) == h.isHandOpen /\ ~isOpen

\* audioService.ts:85-93 and 95-103: whether the call starts a sound.  A muted
\* service returns at once; in fallback mode playSynthSfx needs the
\* AudioContext (audioService.ts:181), otherwise the element is played.
playExpand(muted, useFallback, audioCtx) ==
  ~muted /\ (useFallback => audioCtx)
playContract(muted, useFallback, audioCtx) ==
  ~muted /\ (useFallback => audioCtx)

\* useHandTracking.ts:56-104  what predict hands to onHandUpdate
NoHand == [hand |-> FALSE, isOpen |-> FALSE, pos |-> << 0, 0 >>]
TrackerResults ==
  { NoHand } \cup
  { [hand |-> TRUE, isOpen |-> o, pos |-> << 2, 9 >>] : o \in BOOLEAN }

SampleOf(res) ==
  IF res.hand
  THEN [isOpen |-> res.isOpen, pos |-> res.pos]
  ELSE [isOpen |-> TRUE, pos |-> << PosUnit \div 2, PosUnit \div 2 >>]

\* useHandTracking.ts:47-107 calling data.ts:142-165
Sample(res) ==
  /\ Running
  /\ rafPending
  /\ tracker = "ready" /\ videoRefSet
  /\ sampleCount < MaxSamples
  /\ LET smp == SampleOf(res)
         isOpen == smp.isOpen
         target == IF isOpen THEN Scale ELSE 0
         s1 == [st EXCEPT !.expansion = ExpansionStep(@, target)]
         opened == DetectsOpen(handler, isOpen)
         closed == DetectsClose(handler, isOpen)
         tr == IF opened
               THEN triggerNewPhrase(handler, s1, lastPhraseTime, now)
               ELSE [ accepted |-> FALSE, consumed |-> FALSE,
                      last |-> lastPhraseTime, st |-> s1, calls |-> << >>,
                      rejected |-> FALSE ]
     IN \E newBody \in (IF closed
                          THEN changeCelestialBody(handler.currentBody)
                          ELSE { st.currentBody }) :
          LET s2 == IF closed THEN [tr.st EXCEPT !.currentBody = newBody]
                    ELSE tr.st
          IN /\ st' = [s2 EXCEPT !.isHandOpen = isOpen,
                                 !.handRotation = RotationOf(smp.pos)]
             /\ lastPhraseTime' = tr.last
             /\ inflight' = inflight \o tr.calls
             /\ fault' = IF tr.rejected THEN "rejection" ELSE fault
             /\ ev' = [ NoEvent("sample") EXCEPT
                          !.rising = ~prevSample /\ isOpen,
                          !.falling = prevSample /\ ~isOpen,
                          !.noHand = ~res.hand,
                          !.target = target,
                          !.trigCall = opened,
                          !.trigAccepted = tr.accepted,
                          !.consumed = tr.consumed,
                          !.bodyCall = closed,
                          !.bodyFrom = IF closed THEN handler.currentBody ELSE "",
                          !.expandCue = opened /\ ~handler.isMuted,
                          !.contractCue = closed /\ ~handler.isMuted,
                          !.expandPlayed = opened /\ ~handler.isMuted
                                             /\ playExpand(audio.isMuted, audio.useFallback,
                                                          audio.audioCtx),
                          !.contractPlayed = closed /\ ~handler.isMuted
                                               /\ playContract(audio.isMuted, audio.useFallback,
                                                              audio.audioCtx),
                          !.issued = Len(tr.calls) ]
  /\ prevSample' = SampleOf(res).isOpen
  /\ sampleCount' = sampleCount + 1
  /\ UNCHANGED << committed, handler, effectsPending, rafPending, videoRefSet,
                  tracker, now >>
  /\ UNCHANGED << colorVars, anim, sel, gen, ps, loop, audio >>

\* React renders App with the queued state and commits it.  An updater that
\* throws unmounts the tree (no error boundary), which cancels the loop.
Render ==
  /\ Running
  /\ ~effectsPending
  /\ st # committed
  /\ IF st.phrasesCache.tag = "poison"
     THEN /\ fault' = "crash"
          /\ rafPending' = FALSE
          /\ UNCHANGED << committed, effectsPending >>
     ELSE /\ committed' = st
          /\ effectsPending' = TRUE
          /\ UNCHANGED << fault, rafPending >>
  /\ ev' = NoEvent("render")
  /\ UNCHANGED << st, handler, videoRefSet, tracker, now, lastPhraseTime,
                  inflight, prevSample, sampleCount >>
  /\ UNCHANGED << colorVars, anim, sel, gen, ps, loop, audio >>

\* useHandTracking.ts:111  the loop is started only when the render saw
\* isReady and the video element is there
LoopStarts_NoReady(c, video) == video

LoopStarts(c, video) == c.isReady /\ video

\* The passive effects of the mount: useHandTracking.ts:17-45 starts
\* initLandmarker, useHandTracking.ts:110-113 finds isReady false,
\* data.ts:184-188 sets videoRef, data.ts:214-216 starts the prefetch.
MountEffects ==
  /\ Running
  /\ effectsPending
  /\ tracker = "idle"
  /\ tracker' = "loading"
  /\ handler' = Closure(committed)
  /\ rafPending' = LoopStarts(committed, videoRefSet)
  /\ videoRefSet' = TRUE
  /\ inflight' = inflight \o << [kind |-> "prefetch", count |-> PREFETCH_COUNT] >>
  /\ effectsPending' = FALSE
  /\ ev' = [NoEvent("mount") EXCEPT !.issued = 1]
  /\ UNCHANGED << st, committed, now, lastPhraseTime, fault,
                  prevSample, sampleCount >>
  /\ UNCHANGED << colorVars, anim, sel, gen, ps, loop, audio >>

\* The passive effects of a later commit: useHandTracking.ts:110-117 cancels
\* the scheduled predict and schedules the one of the committed render.
FlushEffects ==
  /\ Running
  /\ effectsPending
  /\ tracker # "idle"
  /\ handler' = Closure(committed)
  /\ rafPending' = LoopStarts(committed, videoRefSet)
  /\ effectsPending' = FALSE
  /\ ev' = NoEvent("effects")
  /\ UNCHANGED << st, committed, videoRefSet, tracker, now, lastPhraseTime,
                  inflight, fault, prevSample, sampleCount >>
  /\ UNCHANGED << colorVars, anim, sel, gen, ps, loop, audio >>

\* useHandTracking.ts:31-32
InitSuccess ==
  /\ Running
  /\ tracker = "loading"
  /\ tracker' = "ready"
  /\ st' = [st EXCEPT !.isReady = TRUE]
  /\ ev' = NoEvent("initSuccess")
  /\ UNCHANGED << committed, handler, effectsPending, rafPending, videoRefSet,
                  now, lastPhraseTime, inflight, fault, prevSample,
                  sampleCount >>
  /\ UNCHANGED << colorVars, anim, sel, gen, ps, loop, audio >>

\* useHandTracking.ts:33-36
InitFail ==
  /\ Running
  /\ tracker = "loading"
  /\ tracker' = "failed"
  /\ st' = [st EXCEPT !.error = TRUE]
  /\ ev' = NoEvent("initFail")
  /\ UNCHANGED << committed, handler, effectsPending, rafPending, videoRefSet,
                  now, lastPhraseTime, inflight, fault, prevSample,
                  sampleCount >>
  /\ UNCHANGED << colorVars, anim, sel, gen, ps, loop, audio >>

\* A generateCreativePhrases call resolves and its caller continues:
\* data.ts:215 (prefetch), data.ts:202 (top-up), data.ts:207-210 (fill).
Respond(i, o) ==
  /\ Running
  /\ i \in 1..Len(inflight)
  /\ LET call == inflight[i]
         r == generateCreativePhrases(o)
     IN /\ inflight' = SubSeq(inflight, 1, i - 1) \o
                         SubSeq(inflight, i + 1, Len(inflight))
        /\ ev' = [NoEvent("respond") EXCEPT !.resolved = r]
        /\ CASE call.kind = "prefetch" ->
                  /\ st' = [st EXCEPT !.phrasesCache = SetCache(@, r)]
                  /\ UNCHANGED fault
             [] call.kind = "topup" ->
                  /\ st' = [st EXCEPT !.phrasesCache = Append2(@, r)]
                  /\ UNCHANGED fault
             [] OTHER ->
                  IF r.tag # "list"
                  THEN /\ fault' = "rejection"
                       /\ UNCHANGED st
                  ELSE IF Len(r.items) > 0
                  THEN /\ st' = [st EXCEPT !.currentPhrase = r.items[1],
                                           !.phrasesCache =
                                             SetCache(@, List(Tail(r.items)))]
                       /\ UNCHANGED fault
                  ELSE UNCHANGED << st, fault >>
  /\ UNCHANGED << committed, handler, effectsPending, rafPending, videoRefSet,
                  tracker, now, lastPhraseTime, prevSample,
                  sampleCount >>
  /\ UNCHANGED << colorVars, anim, sel, gen, ps, loop, audio >>

\* Date.now() advances.
Tick ==
  /\ now < ClockStart + MaxTicks * TickMs
  /\ now' = now + TickMs
  /\ ev' = NoEvent("tick")
  /\ UNCHANGED << st, committed, handler, effectsPending, rafPending,
                  videoRefSet, tracker, lastPhraseTime, inflight, fault, prevSample, sampleCount >>
  /\ UNCHANGED << colorVars, anim, sel, gen, ps, loop, audio >>

\* --------------------------------------- ParticleSystem.tsx:22-38

\* new THREE.Color(1, 1, 1)
WHITE == "rgb(1,1,1)"

\* A JavaScript number: NaN, an infinity, or a finite value given in halves.
NaN == [kind |-> "nan", halves |-> 0]
PosInf == [kind |-> "posinf", halves |-> 0]
NegInf == [kind |-> "neginf", halves |-> 0]
Finite(h) == [kind |-> "finite", halves |-> h]

\* Number.isFinite and Math.floor
IsFinite(x) == x.kind = "finite"
Floor(x) == x.halves \div 2

ClampIndex_OffByOne(i, len) == Max(0, Min(i, len - 2))

\* ParticleSystem.tsx:31  the clamp into the palette
ClampIndex(i, len) == Max(0, Min(i, len - 1))

getSafeColor(colors, idx) ==
  IF Len(colors) = 0
  THEN WHITE
  ELSE LET safeIndex == IF IsFinite(idx) THEN Floor(idx) ELSE 0
       IN colors[ClampIndex(safeIndex, Len(colors)) + 1]

PaletteColors == { "#000000", "#FF0000" }
Palettes == UNION { [1..n -> PaletteColors] : n \in 0..MaxPalette }
Indices ==
  { NaN, PosInf, NegInf } \cup
  { Finite(h) : h \in (-3)..(2 * MaxPalette + 2) }

ColorIdle ==
  /\ colorIn = [colors |-> << >>, idx |-> Finite(0)]
  /\ colorOut = "pending"

ColorInit ==
  /\ colorIn \in [colors : Palettes, idx : Indices]
  /\ colorOut = "pending"

\* One call of getSafeColor.
GetSafeColor ==
  /\ colorOut = "pending"
  /\ colorOut' = getSafeColor(colorIn.colors, colorIn.idx)
  /\ UNCHANGED << appVars, colorIn, anim, sel, gen, ps, loop, audio >>

\* --------------------------------------- ParticleSystem.tsx:391-414
\* Math.sin at the clock values the model visits: time * 0.5 advances by a
\* quarter turn per frame, and the particle's seed is 0.
Sin4(phase) == << 0, 1, 0, -1 >>[phase + 1]

BlendTarget_Swapped(e, origin, target) ==
  (e * target + (ExpUnit - e) * origin) \div ExpUnit

\* ParticleSystem.tsx:401  expansion * initial + (1 - expansion) * target
BlendTarget(e, origin, target) ==
  (e * origin + (ExpUnit - e) * target) \div ExpUnit

\* ParticleSystem.tsx:405, in thousandths
NoiseIntensity(e, star) ==
  e * 80 + (IF star /\ e < 1 THEN 50 ELSE 20)

\* ParticleSystem.tsx:407  sin(...) * noiseIntensity * 0.2, in AnimUnit
Oscillation(phase, e, star) == Sin4(phase) * NoiseIntensity(e, star) * 2

\* ParticleSystem.tsx:396 and 411  d * lerpSpeed, stored in a Float32Array:
\* rounded to the nearest representable coordinate
LerpStep(d) ==
  IF d >= 0 THEN (d * 8 + 50) \div 100 ELSE -((-d * 8 + 50) \div 100)

AnimPoints == { << 2000, 0 >>, << -1000, 500 >> }

AnimIdle ==
  anim = [ expansion |-> ExpUnit, star |-> TRUE, origin |-> 2000,
           target |-> 0, live |-> 2000, phase |-> 0 ]

AnimInit ==
  anim \in { [ expansion |-> ExpUnit, star |-> s, origin |-> pt[1],
               target |-> pt[2], live |-> pt[1], phase |-> 0 ] :
             s \in BOOLEAN, pt \in AnimPoints }

\* One run of the useFrame callback for one particle coordinate.
Frame ==
  /\ Running
  /\ LET goal == BlendTarget(anim.expansion, anim.origin, anim.target)
                   + Oscillation(anim.phase, anim.expansion, anim.star)
     IN anim' = [anim EXCEPT !.live = @ + LerpStep(goal - @),
                             !.phase = (@ + 1) % 4]
  /\ UNCHANGED << appVars, colorVars, sel, gen, ps, loop, audio >>

\* App re-renders ParticleSystem with another expansion prop (data.ts:261).
SetExpansion(e) ==
  /\ Running
  /\ e # anim.expansion
  /\ anim' = [anim EXCEPT !.expansion = e]
  /\ UNCHANGED << appVars, colorVars, sel, gen, ps, loop, audio >>

\* --------------------------------------- ParticleSystem.tsx:14-19, Math.*
\* Angles are in microradians, coordinates and the values of sin, cos and
\* noise in AnimUnit (1/10000), Math.random() in thousandths.
MilliUnit == Pow10(3)
MicroPerAnim == Pow10(2)
PiMicro == 3141593
TwoPiMicro == 2 * PiMicro

RECURSIVE SqrtSearch(_, _, _)
SqrtSearch(n, lo, hi) ==
  IF lo >= hi THEN lo
  ELSE LET mid == (lo + hi + 1) \div 2
       IN IF mid * mid <= n THEN SqrtSearch(n, mid, hi)
          ELSE SqrtSearch(n, lo, mid - 1)

\* Math.sqrt on a non-negative integer, rounded down
Sqrt(n) == SqrtSearch(n, 0, 46340)

RECURSIVE CbrtSearch(_, _, _)
CbrtSearch(n, lo, hi) ==
  IF lo >= hi THEN lo
  ELSE LET mid == (lo + hi + 1) \div 2
       IN IF mid * mid * mid <= n THEN CbrtSearch(n, mid, hi)
          ELSE CbrtSearch(n, lo, mid - 1)

\* Math.cbrt of u thousandths, in thousandths
Cbrt(u) == CbrtSearch(u * MilliUnit * MilliUnit, 0, MilliUnit)

\* sin on [0, pi/2], the angle t in AnimUnit: the Taylor polynomial to t^9
SinQuarter(t) ==
  LET t2 == (t * t) \div AnimUnit
      h4 == AnimUnit - t2 \div 72
      h3 == AnimUnit - ((t2 * h4) \div AnimUnit) \div 42
      h2 == AnimUnit - ((t2 * h3) \div AnimUnit) \div 20
      h1 == AnimUnit - ((t2 * h2) \div AnimUnit) \div 6
  IN (t * h1) \div AnimUnit

\* Math.sin of a microradians
Sin(a) ==
  LET r == a % TwoPiMicro
      half == IF r >= PiMicro THEN r - PiMicro ELSE r
      fold == IF 2 * half > PiMicro THEN PiMicro - half ELSE half
  IN (IF r >= PiMicro THEN -1 ELSE 1)
       * SinQuarter((fold + MicroPerAnim \div 2) \div MicroPerAnim)

\* Math.cos of a microradians
Cos(a) == Sin(a + PiMicro \div 2)

\* the product of two values in AnimUnit (a split so that no intermediate
\* product leaves the 32-bit range of the checker's integers)
Mul(a, b) == (a \div AnimUnit) * b + ((a % AnimUnit) * b) \div AnimUnit

\* the quotient of two values in AnimUnit
Div(a, b) == (a * AnimUnit) \div b

\* a * b / c, rounded down, for a, c below a million
MulDiv(a, b, c) ==
  LET bh == b \div MilliUnit
      bl == b % MilliUnit
  IN ((a * bh) \div c) * MilliUnit + (((a * bh) % c) * MilliUnit + a * bl) \div c

\* Math.random() * Math.PI * 2
ThetaOf(u) == MulDiv(u, TwoPiMicro, MilliUnit)

\* Math.atan2(z, x): the angle in the first quadrant by bisection on
\* |z| cos a - |x| sin a, then the quadrant
RECURSIVE AtanSearch(_, _, _, _)
AtanSearch(z, x, lo, hi) ==
  IF hi - lo <= 1 THEN lo
  ELSE LET mid == (lo + hi) \div 2
       IN IF Mul(z, Cos(mid)) - Mul(x, Sin(mid)) >= 0
          THEN AtanSearch(z, x, mid, hi)
          ELSE AtanSearch(z, x, lo, mid)

InQuadrant(z, x, q) ==
  IF x >= 0 THEN (IF z >= 0 THEN q ELSE -q)
  ELSE (IF z >= 0 THEN PiMicro - q ELSE q - PiMicro)

Atan2(z, x) ==
  IF z = 0 /\ x = 0 THEN 0
  ELSE InQuadrant(z, x, AtanSearch(Abs(z), Abs(x), 0, PiMicro \div 2))

\* an angle of k times the coordinate or value x (in AnimUnit), in microradians
Angle(k, x) == k * x * MicroPerAnim

\* ParticleSystem.tsx:16-19
noise(x, y, z) ==
  Mul(Mul(Sin(Angle(12, x)), Cos(Angle(12, y))), Sin(Angle(12, z)))
    + Mul(Mul(Sin(Angle(4, x)), Sin(Angle(4, y))), Cos(Angle(4, z))) \div 2

\* --------------------------------------- data.ts:4-105 (the descriptors)
\* A CelestialBodyConfig (useHandTracking.ts:139-147); radius in AnimUnit,
\* ringColors a List or Undefined.
Body(name, type, radius, colors, hasRings, ringColors, textureType) ==
  [ name |-> name, type |-> type, radius |-> radius, colors |-> colors,
    hasRings |-> hasRings, ringColors |-> ringColors,
    textureType |-> textureType ]

\* tenths of a unit, in AnimUnit
Tenths(n) == n * (AnimUnit \div 10)

BODY_CONFIGS ==
  << Body("Sun", "star", Tenths(40),
          << "#FFF700", "#FF8C00", "#FF4500", "#8B0000" >>,
          FALSE, Undefined, "noise"),
     Body("Mercury", "planet", Tenths(15),
          << "#A5A5A5", "#8C8C8C", "#686868", "#4A4A4A" >>,
          FALSE, Undefined, "noise"),
     Body("Venus", "planet", Tenths(28),
          << "#F5DEB3", "#E6C288", "#D2B48C", "#FFFACD" >>,
          FALSE, Undefined, "noise"),
     Body("Earth", "planet", Tenths(30),
          << "#020614", "#0a2452", "#1c6ba0", "#0f2b0f", "#3a5f28",
             "#827054", "#ffffff" >>,
          FALSE, Undefined, "noise"),
     Body("Moon", "moon", Tenths(10),
          << "#D3D3D3", "#A9A9A9", "#808080", "#F5F5F5" >>,
          FALSE, Undefined, "noise"),
     Body("Mars", "planet", Tenths(22),
          << "#8B0000", "#B22222", "#CD5C5C", "#E9967A" >>,
          FALSE, Undefined, "noise"),
     Body("Jupiter", "planet", Tenths(45),
          << "#8B4513", "#D2691E", "#F4A460", "#FFE4B5", "#A0522D" >>,
          FALSE, Undefined, "banded"),
     Body("Saturn", "planet", Tenths(38),
          << "#D8C398", "#C7B283", "#BDB76B", "#8B7355" >>,
          TRUE, List(<< "#C0C0C0", "#D2B48C", "#8B4513" >>), "banded"),
     Body("Uranus", "planet", Tenths(32),
          << "#E0FFFF", "#AFEEEE", "#7FFFD4", "#40E0D0" >>,
          TRUE, List(<< "#E0FFFF", "#AFEEEE" >>), "solid"),
     Body("Neptune", "planet", Tenths(32),
          << "#000080", "#0000CD", "#191970", "#4169E1" >>,
          FALSE, Undefined, "noise"),
     Body("Pluto", "planet", Tenths(8),
          << "#F5DEB3", "#D2B48C", "#C0C0C0", "#FFF8DC" >>,
          FALSE, Undefined, "noise") >>

\* Descriptors the CelestialBodyConfig type admits and the catalog lacks: a
\* ringed body without ringColors, one with an empty ringColors, a star that
\* is not named "Sun".
RingedNoPalette ==
  Body("Ringed", "planet", Tenths(30), << "#000000", "#FFFFFF" >>,
       TRUE, Undefined, "noise")
RingedEmptyPalette ==
  Body("RingedEmpty", "planet", Tenths(30), << "#000000", "#FFFFFF" >>,
       TRUE, List(<< >>), "noise")
OtherStar ==
  Body("Sirius", "star", Tenths(40), << "#FFFFFF", "#A0C8FF" >>,
       FALSE, Undefined, "noise")

CatalogBodies == { BODY_CONFIGS[i] : i \in 1..Len(BODY_CONFIGS) }
Descriptors == CatalogBodies \cup { RingedNoPalette, RingedEmptyPalette, OtherStar }

\* --------------------------------------- ParticleSystem.tsx:43-353
\* The groups of particle indices a regeneration writes, in the order the
\* code writes them: [from, to) is written by the loop named kind; to is the
\* running write index (currentIdx) when the loop ends.
count == 64000
sunCount_TooMany == count - 1
sunCount == 20000
orbitCount == 9000
asteroidCount == 8000
radii == << 6, 8, 10, 11, 14, 20, 26, 32, 38, 44 >>

\* ParticleSystem.tsx:77
planetList == SelectSeq(BODY_CONFIGS, LAMBDA b : b.name # "Sun")

Group(kind, sub, from, n) ==
  [ kind |-> kind, sub |-> sub, from |-> from, to |-> from + n ]

\* ParticleSystem.tsx:108
particlesInRing == orbitCount \div Len(radii)

\* ParticleSystem.tsx:142
particlesPerPlanet(currentIdx) == (count - currentIdx) \div Len(planetList)

\* ParticleSystem.tsx:144-199  the per-planet loops; a loop stops writing
\* when the write index reaches count (line 159)
RECURSIVE PlanetGroups(_, _, _)
PlanetGroups(p, currentIdx, perPlanet) ==
  IF p >= Len(planetList) THEN << >>
  ELSE LET n == Min(Max(perPlanet, 0), Max(count - currentIdx, 0))
       IN << Group("planet", p, currentIdx, n) >>
            \o PlanetGroups(p + 1, currentIdx + n, perPlanet)

\* ParticleSystem.tsx:79-207
CompositeLayout ==
  LET core == << Group("core", 0, 0, sunCount) >>
      orbits == [ rIdx \in 1..Len(radii) |->
                    Group("orbit", rIdx - 1,
                          sunCount + (rIdx - 1) * particlesInRing,
                          particlesInRing) ]
      afterOrbits == sunCount + Len(radii) * particlesInRing
      debris == << Group("debris", 0, afterOrbits, asteroidCount) >>
      afterDebris == afterOrbits + asteroidCount
      planets == PlanetGroups(0, afterDebris, particlesPerPlanet(afterDebris))
      afterPlanets == IF planets = << >> THEN afterDebris
                      ELSE planets[Len(planets)].to
      void == << Group("void", 0, afterPlanets, Max(count - afterPlanets, 0)) >>
  IN core \o orbits \o debris \o planets \o void

ringParticleCount_Third(body) == IF body.hasRings THEN count \div 3 ELSE 0

ringParticleCount_NeedsPalette(body) ==
  IF body.hasRings /\ body.ringColors.tag = "list"
       /\ body.ringColors.items # << >>
  THEN (count * 35) \div 100 ELSE 0

\* ParticleSystem.tsx:214  Math.floor(count * 0.35)
ringParticleCount(body) == IF body.hasRings THEN (count * 35) \div 100 ELSE 0

\* ParticleSystem.tsx:215
bodyParticleCount(body) == count - ringParticleCount(body)

\* ParticleSystem.tsx:217-223  the single loop over [0, count): an index is
\* generated as a ring particle when isRing && bodyConfig.hasRings
SingleLayout(body) ==
  << Group("body", 0, 0, bodyParticleCount(body)),
     Group(IF body.hasRings THEN "ring" ELSE "body", 0,
           bodyParticleCount(body), count - bodyParticleCount(body)) >>

UsesSolarSystem_ByType(body) == body.type = "star"

\* ParticleSystem.tsx:61
UsesSolarSystem(body) == body.name = "Sun"

Layout(body) ==
  IF UsesSolarSystem(body) THEN CompositeLayout ELSE SingleLayout(body)

\* the loop that writes index i; an index no loop writes keeps the zeros the
\* Float32Array was created with (lines 48-49)
Unwritten == [ kind |-> "none", sub |-> 0, from |-> 0, to |-> 0 ]
GroupAt(groups, i) ==
  LET hits == { k \in 1..Len(groups) : groups[k].from <= i /\ i < groups[k].to }
  IN IF hits = {} THEN Unwritten
     ELSE groups[CHOOSE k \in hits : \A m \in hits : m <= k]

\* --------------------------------------- ParticleSystem.tsx:209-353
\* A THREE.Color: a palette entry (or WHITE), and what was done to it.
Colour(base, mod) == [ base |-> base, mod |-> mod ]
NoColour == Colour("", "")

\* a finite number v (in AnimUnit) as getSafeColor's index argument
Num(v) == Finite(2 * (v \div AnimUnit))

\* the point at angles theta, acos(2u - 1) on the sphere of radius r
\* (ParticleSystem.tsx:245-249 and 84-90, 180-185)
SphereAt(r, theta, cosPhi, sinPhi) ==
  << Mul(Mul(r, sinPhi), Cos(theta)),
     Mul(r, cosPhi),
     Mul(Mul(r, sinPhi), Sin(theta)) >>

\* Math.cos and Math.sin of Math.acos(2 * u - 1)
CosPhi(u) == (2 * u - MilliUnit) * (AnimUnit \div MilliUnit)
SinOfCos(c) == Sqrt(AnimUnit * AnimUnit - c * c)

SpherePoint(r, uTheta, uPhi) ==
  SphereAt(r, ThetaOf(uTheta), CosPhi(uPhi), SinOfCos(CosPhi(uPhi)))

Scaled(pos, k) == << Mul(pos[1], k), Mul(pos[2], k), Mul(pos[3], k) >>

\* ParticleSystem.tsx:212 and 156  ringColors ? ringColors.map(...) : []
RingColors(body) ==
  IF body.ringColors.tag = "list" THEN body.ringColors.items ELSE << >>

\* ParticleSystem.tsx:233-240  the colour of the ring particle at the
\* normalised radial position normalizedR
RingColour(ringColors, normalizedR) ==
  Colour(getSafeColor(ringColors,
                      IF Len(ringColors) > 0
                      THEN Num((normalizedR * Len(ringColors) * 3)
                                 % (Len(ringColors) * AnimUnit))
                      ELSE Finite(0)),
         IF normalizedR > 6000 /\ normalizedR < 6500 THEN "x0.2" ELSE "")

\* ParticleSystem.tsx:227-231  the ring particle at radial distance r
RingAt(r, theta, uY, color) ==
  [ kind |-> "ring",
    target |-> << Mul(r, Cos(theta)),
                  (uY - MilliUnit \div 2) \div 2,
                  Mul(r, Sin(theta)) >>,
    color |-> color ]

\* ParticleSystem.tsx:225-226
RingInner(radius) == (radius * 13) \div 10
RingOuter(radius) == (radius * 22) \div 10

\* ParticleSystem.tsx:225-240
RingParticle(body, d) ==
  LET inner == RingInner(body.radius)
      outer == RingOuter(body.radius)
  IN RingAt(inner + (d.t1 * (outer - inner)) \div MilliUnit,
            ThetaOf(d.t2),
            d.t3,
            RingColour(RingColors(body),
                       Div((d.t1 * (outer - inner)) \div MilliUnit,
                           outer - inner)))

\* ParticleSystem.tsx:275-320  the Earth's decision tree on the terrain
\* height h, the detail, moisture and cloud noise and the latitude; the
\* result carries whether the particle was lifted into the cloud layer
EarthDecide(colors, absLat, h, nDet, nMoist, nCloud, uCloud) ==
  LET at(k) == Colour(getSafeColor(colors, Finite(2 * k)), "")
      ground ==
        IF h < 500
        THEN IF h - 500 > -1500 THEN at(2)
             ELSE IF h - 500 > -4500 THEN at(1)
             ELSE at(0)
        ELSE IF absLat > 8500 THEN at(6)
        ELSE IF nDet > 4000 \/ h > 6000 THEN at(5)
        ELSE IF nMoist > 1000
        THEN (IF nMoist > 5000 THEN at(3) ELSE at(4))
        ELSE IF nMoist < -3000 THEN at(5)
        ELSE Colour(getSafeColor(colors, Finite(2 * 4)), "lerp5")
  IN IF nCloud > 5500 /\ uCloud > 100
     THEN [ cloud |-> TRUE, color |-> at(6) ]
     ELSE [ cloud |-> FALSE, color |-> ground ]

EarthTerrain(colors, absLat, nCont, nDet, nMoist, nCloud, uCloud) ==
  EarthDecide(colors, absLat, nCont + nDet \div 5, nDet, nMoist, nCloud,
              uCloud)

\* ParticleSystem.tsx:255-320  the Earth colouring of the point pos
EarthColour(body, pos, uCloud) ==
  EarthTerrain(
    body.colors,
    Abs(Div(pos[2], body.radius)),
    noise(pos[1], pos[2], pos[3]),
    noise(pos[1] * 5, pos[2] * 5, pos[3] * 5),
    noise(pos[1] * 2 + 100 * AnimUnit, pos[2] * 2 + 100 * AnimUnit,
          pos[3] * 2 + 100 * AnimUnit),
    noise((pos[1] * 35) \div 10 + 50 * AnimUnit, (pos[2] * 35) \div 10,
          (pos[3] * 35) \div 10 + 50 * AnimUnit),
    uCloud)

\* ParticleSystem.tsx:316-319  cloudHeight = 0.04
CloudLift_None(pos) == pos

CloudLift(pos) == Scaled(pos, AnimUnit + 400)

\* ParticleSystem.tsx:252-253
NorthCoordinate(y, r) == (Div(y, r) + AnimUnit) \div 2
EastCoordinate(z, x) ==
  Div((Atan2(z, x) + PiMicro) \div MicroPerAnim, TwoPiMicro \div MicroPerAnim)

\* ParticleSystem.tsx:323-326 and 330-331  the band value as a colour index
JupiterBand(nX, nY) == Cos(Mul(PiMicro, (nY + Sin(Angle(10, nX)) \div 20) * 15))
SaturnBand(nY) == Cos(Mul(PiMicro, nY * 20))
BandIndex(bandVal, len) == ((bandVal + AnimUnit) \div 2) * len

\* ParticleSystem.tsx:336-337 and 343-344
NoiseIndex(n, len) == Max(0, Min(AnimUnit, (n + 15000) \div 3)) * len

\* ParticleSystem.tsx:322-346  the colour index of the other bodies
BodyColourIndex(body, pos) ==
  CASE body.name = "Jupiter" ->
         BandIndex(JupiterBand(EastCoordinate(pos[3], pos[1]),
                               NorthCoordinate(pos[2], body.radius)),
                   Len(body.colors))
    [] body.name = "Saturn" ->
         BandIndex(SaturnBand(NorthCoordinate(pos[2], body.radius)),
                   Len(body.colors))
    [] body.name = "Mars" ->
         NoiseIndex(noise(pos[1] * 2, pos[2] * 2, pos[3] * 2), Len(body.colors))
    [] OTHER ->
         NoiseIndex(noise(pos[1], pos[2], pos[3]), Len(body.colors))

\* ParticleSystem.tsx:310-320  the Earth particle at pos, coloured as e says
EarthAt(pos, e) ==
  [ kind |-> IF e.cloud THEN "cloud" ELSE "body",
    target |-> IF e.cloud THEN CloudLift(pos) ELSE pos,
    color |-> e.color ]

\* ParticleSystem.tsx:251-346  the body particle at the sphere point pos
BodyAt(body, pos, uCloud) ==
  IF body.name = "Earth"
  THEN EarthAt(pos, EarthColour(body, pos, uCloud))
  ELSE [ kind |-> "body",
         target |-> pos,
         color |-> Colour(getSafeColor(body.colors,
                                       Num(BodyColourIndex(body, pos))),
                          "") ]

\* ParticleSystem.tsx:243-346
BodyParticle(body, d) ==
  BodyAt(body, SpherePoint(body.radius, d.t1, d.t2), d.t3)

\* ParticleSystem.tsx:217-353  particle i of the single-body layout
SingleParticle(body, i, d) ==
  IF GroupAt(SingleLayout(body), i).kind = "ring"
  THEN RingParticle(body, d)
  ELSE BodyParticle(body, d)

\* --------------------------------------- ParticleSystem.tsx:61-207
\* the write index when the planet loops start (line 142)
FixedGroupsEnd == sunCount + Len(radii) * particlesInRing + asteroidCount

\* ParticleSystem.tsx:82-103
CoreParticle(body, d) ==
  LET pos == SpherePoint(Tenths(35), d.t1, d.t2)
      n == noise(pos[1], pos[2], pos[3])
      cIdx == ((n + 15000) \div 3) * Len(body.colors)
  IN [ kind |-> "core",
       target |-> pos,
       color |-> Colour(getSafeColor(body.colors, Num(cIdx)),
                        IF d.t3 > 700 THEN "+0.2" ELSE "") ]

\* ParticleSystem.tsx:106-123  particle j of orbit circle rIdx
OrbitParticle(rIdx, j, d) ==
  LET r == radii[rIdx + 1] * AnimUnit
      theta == MulDiv(j, TwoPiMicro, particlesInRing)
      jitter == d.t1 - MilliUnit \div 2
  IN [ kind |-> "orbit",
       target |-> << Mul(r + jitter, Cos(theta)),
                     (d.t2 - MilliUnit \div 2) \div 2,
                     Mul(r + jitter, Sin(theta)) >>,
       color |-> Colour("orbit", "shade") ]

\* ParticleSystem.tsx:126-139
DebrisParticle(d) ==
  LET r == 16 * AnimUnit + (d.t1 - MilliUnit \div 2) * 30
      theta == ThetaOf(d.t2)
  IN [ kind |-> "debris",
       target |-> << Mul(r, Cos(theta)),
                     (d.t3 - MilliUnit \div 2) * 8,
                     Mul(r, Sin(theta)) >>,
       color |-> Colour("asteroid", "shade") ]

\* ParticleSystem.tsx:161  k > particlesPerPlanet * 0.7, the product taken in
\* double arithmetic (2700 * 0.7 is 1889.9999999999998)
IsPlanetRing(k, perPlanet) == k * 10 > perPlanet * 7 - 1

\* ParticleSystem.tsx:144-198  particle k of the mini planet p
PlanetParticle(p, k, d) ==
  LET planet == planetList[p + 1]
      orbitR == radii[(p % Len(radii)) + 1] * AnimUnit
      planetAngle == (p * 2500000) % TwoPiMicro
      cx == Mul(orbitR, Cos(planetAngle))
      cz == Mul(orbitR, Sin(planetAngle))
      pr == (planet.radius * 15) \div 100
      isRing == planet.hasRings
                  /\ IsPlanetRing(k, particlesPerPlanet(FixedGroupsEnd))
  IN IF isRing
     THEN LET rInner == (pr * 14) \div 10
              rOuter == (pr * 22) \div 10
              rRing == rInner + (d.t1 * (rOuter - rInner)) \div MilliUnit
              thetaRing == ThetaOf(d.t2)
              pRingColors == RingColors(planet)
              cIdx == (d.t4 * Len(pRingColors)) \div MilliUnit
          IN [ kind |-> "planetRing",
               target |-> << cx + Mul(rRing, Cos(thetaRing)),
                             (d.t3 - MilliUnit \div 2) \div 2,
                             cz + Mul(rRing, Sin(thetaRing)) >>,
               color |-> Colour(getSafeColor(pRingColors, Finite(2 * cIdx)),
                                "") ]
     ELSE LET s == SpherePoint(pr, d.t1, d.t2)
              pos == << cx + s[1], s[2], cz + s[3] >>
              n == noise(pos[1], pos[2], pos[3])
              cIdx == ((n + 15000) \div 3) * Len(planet.colors)
          IN [ kind |-> "planet",
               target |-> pos,
               color |-> Colour(getSafeColor(planet.colors, Num(cIdx)), "") ]

\* ParticleSystem.tsx:202-207, and an index nothing wrote (lines 48-49)
VoidParticle(kind) ==
  [ kind |-> kind, target |-> << 0, 0, 0 >>, color |-> NoColour ]

\* ParticleSystem.tsx:79-207  particle i of the solar-system layout
CompositeParticle(body, i, d) ==
  LET g == GroupAt(CompositeLayout, i)
  IN CASE g.kind = "core" -> CoreParticle(body, d)
       [] g.kind = "orbit" -> OrbitParticle(g.sub, i - g.from, d)
       [] g.kind = "debris" -> DebrisParticle(d)
       [] g.kind = "planet" -> PlanetParticle(g.sub, i - g.from, d)
       [] OTHER -> VoidParticle(g.kind)

\* ParticleSystem.tsx:357-366
OriginPosition(d) ==
  LET spreadR == 50 * Cbrt(d.o1) * (AnimUnit \div MilliUnit)
      theta == ThetaOf(d.o2)
      cosPhi == (2 * d.o3 - MilliUnit) * (AnimUnit \div MilliUnit)
      sinPhi == Sqrt(AnimUnit * AnimUnit - cosPhi * cosPhi)
  IN << Mul(Mul(spreadR, sinPhi), Cos(theta)),
        Mul(Mul(spreadR, sinPhi), Sin(theta)),
        Mul(spreadR, cosPhi) >>

\* ParticleSystem.tsx:368-370
Seeds(d) == << d.s1, d.s2, d.s3 >>

\* ParticleSystem.tsx:46-379  the four arrays at index i, as one run of the
\* useMemo callback with the random draws d writes them
Regenerate(body, i, d) ==
  LET p == IF UsesSolarSystem(body)
           THEN CompositeParticle(body, i, d)
           ELSE SingleParticle(body, i, d)
  IN [ layout |-> IF UsesSolarSystem(body) THEN "composite" ELSE "single",
       groups |-> Layout(body),
       kind |-> p.kind,
       target |-> p.target,
       color |-> p.color,
       origin |-> OriginPosition(d),
       seed |-> Seeds(d) ]

\* --------------------------------------- one regeneration, one index
\* The values Math.random() returns to the loops that write one index
\* (thousandths): t1..t4 to the target and colour, o1..o3 to the origin
\* cloud, s1..s3 to the seeds.
TargetDraws ==
  [ t1 : { 70, 190, 310, 630, 999 }, t2 : { 200, 450, 600, 800 },
    t3 : { 0, 990 }, t4 : { 0, 999 } ]
CloudDraws ==
  { [ o1 |-> 125, o2 |-> 70, o3 |-> 200, s1 |-> 0, s2 |-> 500, s3 |-> 999 ],
    [ o1 |-> 512, o2 |-> 630, o3 |-> 800, s1 |-> 250, s2 |-> 750, s3 |-> 1 ] }
Draws(t, c) ==
  [ t1 |-> t.t1, t2 |-> t.t2, t3 |-> t.t3, t4 |-> t.t4,
    o1 |-> c.o1, o2 |-> c.o2, o3 |-> c.o3,
    s1 |-> c.s1, s2 |-> c.s2, s3 |-> c.s3 ]
NoDraws ==
  [ t1 |-> 0, t2 |-> 0, t3 |-> 0, t4 |-> 0, o1 |-> 0, o2 |-> 0, o3 |-> 0,
    s1 |-> 0, s2 |-> 0, s3 |-> 0 ]

\* the first and last index of the groups of both layouts
ProbeIndices ==
  { 0, sunCount - 1, sunCount, FixedGroupsEnd - asteroidCount - 1,
    FixedGroupsEnd - asteroidCount, FixedGroupsEnd - 1, FixedGroupsEnd,
    count - (count * 35) \div 100 - 1, count - (count * 35) \div 100,
    FixedGroupsEnd + 6 * particlesPerPlanet(FixedGroupsEnd) + 1889,
    FixedGroupsEnd + 6 * particlesPerPlanet(FixedGroupsEnd) + 1890,
    count - 1 }

\* the arrays before anything is written (lines 47-50)
NoArrays ==
  [ layout |-> "", groups |-> << >>, kind |-> "", target |-> << 0, 0, 0 >>,
    color |-> NoColour, origin |-> << 0, 0, 0 >>, seed |-> << 0, 0, 0 >> ]

GenIdle ==
  gen = [ pc |-> "idle", body |-> BODY_CONFIGS[1], idx |-> 0, d |-> NoDraws,
          out |-> NoArrays ]

GenInit ==
  gen \in { [ pc |-> "input", body |-> b, idx |-> i, d |-> Draws(t, c),
              out |-> NoArrays ] :
            b \in Descriptors, i \in ProbeIndices, t \in TargetDraws,
            c \in CloudDraws }

\* One run of the useMemo callback (ParticleSystem.tsx:46-379).
Generate ==
  /\ gen.pc = "input"
  /\ gen' = [ gen EXCEPT !.pc = "done",
                         !.out = Regenerate(gen.body, gen.idx, gen.d) ]
  /\ UNCHANGED << appVars, colorVars, anim, sel, ps, loop, audio >>

\* --------------------------------------- data.ts:167-176, draw by draw
\* Math.random() is drawn in tenths.
RandUnit == Pow10(1)
RandomValues == 0..(RandUnit - 1)

\* the draw counter stops counting here
MaxDraws == NumBodies + 2

\* data.ts:171  Math.floor(Math.random() * CELESTIAL_BODIES.length)
DrawIndex(r, len) == (r * len) \div RandUnit

LoopAgain_Always(newBody, current) == TRUE

\* data.ts:173  while (newBody.name === currentBody.name)
LoopAgain(newBody, current) == newBody = current

\* The selection: currentBody as React keeps it (body: queued updates
\* applied; committed: the last committed render; current: the value the
\* closure of the scheduled handler captured, the one data.ts:173 compares
\* with) and the call in progress.
Selection(b) ==
  [ pc |-> "idle", body |-> b, committed |-> b, current |-> b,
    newBody |-> "", rnd |-> 0, draws |-> 0 ]

SelIdle == sel = Selection(Catalog[1])

SelInit == sel \in { Selection(Catalog[i]) : i \in 1..Len(Catalog) }

\* data.ts:167-169  changeCelestialBody is called by the scheduled handler;
\* currentBody is the body its closure captured.
SelectCall ==
  /\ sel.pc \in { "idle", "done" }
  /\ sel' = [ sel EXCEPT !.pc = "drawing", !.newBody = "", !.rnd = 0,
                         !.draws = 0 ]
  /\ UNCHANGED << appVars, colorVars, anim, gen, ps, loop, audio >>

\* data.ts:170-175  one pass of the loop body and its test; leaving the loop
\* runs setCurrentBody(newBody).
SelectDraw(r) ==
  /\ sel.pc = "drawing"
  /\ LET newBody == Catalog[DrawIndex(r, Len(Catalog)) + 1]
         again == LoopAgain(newBody, sel.current)
     IN sel' = [ sel EXCEPT
                   !.newBody = newBody,
                   !.rnd = r,
                   !.draws = Min(@ + 1, MaxDraws),
                   !.body = IF again THEN @ ELSE newBody,
                   !.pc = IF again THEN "drawing" ELSE "done" ]
  /\ UNCHANGED << appVars, colorVars, anim, gen, ps, loop, audio >>

\* React renders App with the body the calls set and commits it, after the
\* passive effects of the previous commit have run.
SelectRender ==
  /\ sel.pc # "drawing"
  /\ sel.current = sel.committed
  /\ sel.body # sel.committed
  /\ sel' = [ sel EXCEPT !.committed = sel.body ]
  /\ UNCHANGED << appVars, colorVars, anim, gen, ps, loop, audio >>

\* useHandTracking.ts:110-117  the passive effects of the commit replace the
\* scheduled predict, and with it the closure changeCelestialBody runs in.
SelectEffects ==
  /\ sel.pc # "drawing"
  /\ sel.current # sel.committed
  /\ sel' = [ sel EXCEPT !.current = sel.committed ]
  /\ UNCHANGED << appVars, colorVars, anim, gen, ps, loop, audio >>

\* a draw that leaves the loop
DrawEnds == \E r \in RandomValues : SelectDraw(r) /\ sel'.pc = "done"

\* --------------------------------------- ParticleSystem.tsx:40-454
\* The mounted component, followed at one particle index: the arrays the
\* useMemo of lines 46-379 returned, the live buffer, what the committed
\* useFrame callback closed over and what the geometry is bound to.  Every
\* array carries the number of the useMemo run that allocated it.

\* the props App passes (data.ts:261); expansion in ExpUnit, the rotation
\* influence in PosUnit
PsBodies == { BODY_CONFIGS[1], BODY_CONFIGS[8], OtherStar }
PsProps ==
  [ body : PsBodies, expansion : { 0, ExpUnit },
    rotationInfluence : { << 0, 0 >>, << 5, -5 >> } ]
PsDraws ==
  { Draws([ t1 |-> 310, t2 |-> 450, t3 |-> 990, t4 |-> 999 ], c) :
    c \in CloudDraws }
PsProbes == { count - 1 }

\* the frame time the clock reports, in microseconds (line 391, delta)
DeltaMicro == 100000

NoProps ==
  [ body |-> BODY_CONFIGS[1], expansion |-> 0,
    rotationInfluence |-> << 0, 0 >> ]
Array(run, v) == [ run |-> run, v |-> v ]
NoMemo ==
  [ run |-> 0, body |-> BODY_CONFIGS[1], layout |-> "",
    initialPositions |-> Array(0, << 0, 0, 0 >>),
    targetPositions |-> Array(0, << 0, 0, 0 >>),
    colors |-> Array(0, NoColour),
    randoms |-> Array(0, << 0, 0, 0 >>) ]
NoReads ==
  [ initialPositions |-> 0, targetPositions |-> 0, colors |-> 0,
    randoms |-> 0, positions |-> 0, body |-> "" ]
NoStep ==
  [ op |-> "none", before |-> << 0, 0, 0 >>, memoBefore |-> NoMemo,
    draws |-> NoDraws, goal |-> << 0, 0, 0 >>, reads |-> NoReads,
    intensity |-> 0, baseRotationSpeed |-> 0 ]

Unmounted(i) ==
  [ pc |-> "unmounted", idx |-> i, props |-> NoProps, runs |-> 0,
    memo |-> NoMemo, currentPositions |-> Array(0, << 0, 0, 0 >>),
    callback |-> [ props |-> NoProps, memo |-> NoMemo ],
    colorAttribute |-> Array(0, NoColour),
    frames |-> 0, rotation |-> << 0, 0 >>,
    first |-> NoMemo, last |-> NoStep ]

PsIdle == ps = Unmounted(count - 1)
PsInit == ps \in { Unmounted(i) : i \in PsProbes }

MemoStale_Always(deps, prev) == TRUE

\* ParticleSystem.tsx:379 and 388  useMemo runs its callback again when a
\* dependency is another object than on the previous render
MemoStale(deps, prev) == deps # prev

\* ParticleSystem.tsx:373-378  the object one run of the callback returns
Memo(run, body, out) ==
  [ run |-> run, body |-> body, layout |-> out.layout,
    initialPositions |-> Array(run, out.origin),
    targetPositions |-> Array(run, out.target),
    colors |-> Array(run, out.color),
    randoms |-> Array(run, out.seed) ]

ResetLive_Keep(initialPositions, currentPositions) == currentPositions

\* ParticleSystem.tsx:384-388  currentPositions[i] = initialPositions[i]
ResetLive(initialPositions, currentPositions) == initialPositions

CommitCallback_Stale(callback, previous) == previous

\* ParticleSystem.tsx:391  useFrame(callback): the callback of this render
\* replaces the committed one when the render commits
CommitCallback(callback, previous) == callback

\* ParticleSystem.tsx:40-454  the state after the component function ran with
\* props p and useMemo result memo, and the render committed
Rendered(p, memo, d) ==
  [ ps EXCEPT
      !.pc = "mounted",
      !.props = p,
      !.runs = memo.run,
      !.memo = memo,
      !.currentPositions =
        IF MemoStale(memo.initialPositions.run, ps.memo.initialPositions.run)
        THEN ResetLive(memo.initialPositions, @)
        ELSE @,
      !.callback = CommitCallback([ props |-> p, memo |-> memo ], @),
      !.colorAttribute = memo.colors,
      !.first = IF ps.pc = "unmounted" THEN memo ELSE @,
      !.last = [ NoStep EXCEPT
                   !.op = IF ps.pc = "unmounted" THEN "mount"
                          ELSE IF p.body # ps.props.body THEN "change"
                          ELSE "rerender",
                   !.before = ps.currentPositions.v,
                   !.memoBefore = ps.memo,
                   !.draws = d ] ]

\* One render of ParticleSystem with the props p, the random source
\* returning the draws d if the generator runs, and its commit.  App's
\* update is rendered and committed in one task, so no frame runs between
\* the hooks of lines 46-388 and the commit of the callback and the JSX.
PsRender(p, d) ==
  /\ p # ps.props \/ ps.pc = "unmounted"
  /\ IF ps.pc = "unmounted" \/ MemoStale(p.body, ps.props.body)
     THEN /\ ps.runs < MaxRegens
          /\ ps' = Rendered(p, Memo(ps.runs + 1, p.body,
                                    Regenerate(p.body, ps.idx, d)), d)
     ELSE ps' = Rendered(p, ps.memo, d)
  /\ UNCHANGED << appVars, colorVars, anim, sel, gen, loop, audio >>

\* ParticleSystem.tsx:405-409  the oscillation of the three coordinates at
\* the elapsed time, in AnimUnit
SeededOscillation(time, seed, intensity) ==
  << (Sin(time \div 2 + seed[1] * 100000) * intensity * 2) \div AnimUnit,
     (Cos((time * 3) \div 10 + seed[2] * 100000) * intensity * 2)
       \div AnimUnit,
     (Sin(time \div 2 + seed[3] * 100000) * intensity * 2) \div AnimUnit >>

\* ParticleSystem.tsx:401-403 and 411-413  tX + nx and its siblings
Goal(e, origin, target, osc) ==
  << BlendTarget(e, origin[1], target[1]) + osc[1],
     BlendTarget(e, origin[2], target[2]) + osc[2],
     BlendTarget(e, origin[3], target[3]) + osc[3] >>

\* ParticleSystem.tsx:411-413
StepTowards(pos, goal) ==
  << pos[1] + LerpStep(goal[1] - pos[1]),
     pos[2] + LerpStep(goal[2] - pos[2]),
     pos[3] + LerpStep(goal[3] - pos[3]) >>

\* ParticleSystem.tsx:420  in microradians
BaseRotationSpeed(body, delta) ==
  ((IF body.name = "Sun" THEN 5 ELSE 10) * delta) \div 100

\* ParticleSystem.tsx:421-425
Rotated(rotation, base, influence, delta) ==
  << rotation[1] + (influence[2] * delta) \div PosUnit,
     rotation[2] + base + (influence[1] * 2 * delta) \div PosUnit >>

\* ParticleSystem.tsx:391-426  the state after the callback cb ran on the
\* live buffer with the goal it computed
Framed(cb, goal, intensity) ==
  [ ps EXCEPT
      !.currentPositions = Array(@.run, StepTowards(@.v, goal)),
      !.frames = @ + 1,
      !.rotation = Rotated(@, BaseRotationSpeed(cb.props.body, DeltaMicro),
                           cb.props.rotationInfluence, DeltaMicro),
      !.last = [ NoStep EXCEPT
                   !.op = "frame",
                   !.before = ps.currentPositions.v,
                   !.memoBefore = ps.memo,
                   !.goal = goal,
                   !.reads = [ initialPositions |->
                                 cb.memo.initialPositions.run,
                               targetPositions |->
                                 cb.memo.targetPositions.run,
                               randoms |-> cb.memo.randoms.run,
                               colors |-> ps.colorAttribute.run,
                               positions |-> ps.currentPositions.run,
                               body |-> cb.props.body.name ],
                   !.intensity = intensity,
                   !.baseRotationSpeed =
                     BaseRotationSpeed(cb.props.body, DeltaMicro) ] ]

\* ParticleSystem.tsx:405
FrameIntensity(cb) ==
  NoiseIntensity(cb.props.expansion, cb.props.body.type = "star")

FrameGoal(cb, time) ==
  Goal(cb.props.expansion, cb.memo.initialPositions.v,
       cb.memo.targetPositions.v,
       SeededOscillation(time, cb.memo.randoms.v, FrameIntensity(cb)))

\* One run of the committed useFrame callback (ParticleSystem.tsx:391-426);
\* it returns at once while the points object is not mounted.
PsFrame ==
  /\ ps.pc = "mounted"
  /\ ps.frames < MaxFrames
  /\ ps' = Framed(ps.callback,
                  FrameGoal(ps.callback, (ps.frames + 1) * DeltaMicro),
                  FrameIntensity(ps.callback))
  /\ UNCHANGED << appVars, colorVars, anim, sel, gen, loop, audio >>


\* --------------------------------------- useHandTracking.ts:47-51, 106-117
\* The prediction loop request by request.  A frame request is the id
\* requestAnimationFrame returned and the predict callback it was given,
\* named by the render that created it; requestRef.current is 0 while null.
LoopMounted ==
  [ pc |-> "mounted",
    render |-> 1,               \* the committed render: the identity of
                                \* handleHandUpdate and of predict
    dirty |-> FALSE,            \* a state update waits for a render
    isReady |-> FALSE,          \* isReady, queued updates applied
    committedReady |-> FALSE,   \* isReady as the committed render saw it
    effectsPending |-> TRUE,    \* the commit's passive effects have not run
    landmarker |-> "none",      \* initLandmarker and landmarkerRef.current
    videoRef |-> FALSE,         \* videoRef.current is the video element
    videoWidth |-> FALSE,       \* the video has frames
    requestRef |-> 0,
    pending |-> { },
    nextId |-> 1,
    callbacks |-> 0,
    samples |-> 0,
    stale |-> 0,                \* callbacks run by a predict of an older render
    last |-> "mount" ]

LoopIdle == loop = [ LoopMounted EXCEPT !.pc = "idle" ]
LoopInit == loop = LoopMounted

\* the browser's frame-request list
requestAnimationFrame(pending, id, predict) ==
  pending \cup { [ id |-> id, predict |-> predict ] }

cancelAnimationFrame_Ignored(pending, id) == pending

cancelAnimationFrame(pending, id) == { r \in pending : r.id # id }

\* useHandTracking.ts:110-117  the loop effect of the committed render: the
\* clean-up of the previous run (when there was one), then the body
LoopEffect(l, hadEffect) ==
  IF LoopStarts([ isReady |-> l.committedReady ], l.videoRef)
  THEN [ l EXCEPT
           !.pending =
             requestAnimationFrame(
               IF hadEffect /\ l.requestRef # 0
               THEN cancelAnimationFrame(@, l.requestRef) ELSE @,
               l.nextId, l.render),
           !.requestRef = l.nextId,
           !.nextId = @ + 1 ]
  ELSE [ l EXCEPT
           !.pending = IF hadEffect /\ l.requestRef # 0
                       THEN cancelAnimationFrame(@, l.requestRef) ELSE @ ]

\* The passive effects of the mount, in the order of the hooks:
\* useHandTracking.ts:17-45 starts initLandmarker, useHandTracking.ts:110-113
\* runs for the first time, data.ts:184-188 sets videoRef.
LoopMountEffects ==
  /\ loop.pc = "mounted"
  /\ loop.effectsPending
  /\ loop.landmarker = "none"
  /\ loop' = [ LoopEffect(loop, FALSE) EXCEPT
                 !.landmarker = "loading",
                 !.videoRef = TRUE,
                 !.effectsPending = FALSE,
                 !.last = "effects" ]
  /\ UNCHANGED << appVars, colorVars, anim, sel, gen, ps, audio >>

\* The passive effects of a later commit: predict is another function on
\* every render (useHandTracking.ts:107, data.ts:142), so the loop effect
\* runs again.
LoopEffects ==
  /\ loop.pc = "mounted"
  /\ loop.effectsPending
  /\ loop.landmarker # "none"
  /\ loop' = [ LoopEffect(loop, TRUE) EXCEPT
                 !.effectsPending = FALSE,
                 !.last = "effects" ]
  /\ UNCHANGED << appVars, colorVars, anim, sel, gen, ps, audio >>

\* useHandTracking.ts:31-32 (ok) and 33-36
LoopLandmarker(ok) ==
  /\ loop.pc = "mounted"
  /\ loop.landmarker = "loading"
  /\ loop' = [ loop EXCEPT
                 !.landmarker = IF ok THEN "ready" ELSE "failed",
                 !.isReady = ok,
                 !.dirty = TRUE,
                 !.last = "landmarker" ]
  /\ UNCHANGED << appVars, colorVars, anim, sel, gen, ps, audio >>

\* the camera stream delivers its first frame (videoRef.current.videoWidth)
LoopVideo ==
  /\ loop.pc = "mounted"
  /\ loop.videoRef /\ ~loop.videoWidth
  /\ loop' = [ loop EXCEPT !.videoWidth = TRUE, !.last = "video" ]
  /\ UNCHANGED << appVars, colorVars, anim, sel, gen, ps, audio >>

\* a state update from elsewhere: a phrase response, the mute button
LoopSetState ==
  /\ loop.pc = "mounted"
  /\ ~loop.dirty
  /\ loop' = [ loop EXCEPT !.dirty = TRUE, !.last = "setState" ]
  /\ UNCHANGED << appVars, colorVars, anim, sel, gen, ps, audio >>

\* React renders App with the queued state and commits it; it runs the
\* passive effects of the previous commit before it renders again.
LoopRender ==
  /\ loop.pc = "mounted"
  /\ loop.dirty /\ ~loop.effectsPending
  /\ loop.render < MaxRenders
  /\ loop' = [ loop EXCEPT
                 !.render = @ + 1,
                 !.dirty = FALSE,
                 !.committedReady = loop.isReady,
                 !.effectsPending = TRUE,
                 !.last = "render" ]
  /\ UNCHANGED << appVars, colorVars, anim, sel, gen, ps, audio >>

\* useHandTracking.ts:48  the test predict makes before it samples
PredictSamples(l) ==
  l.landmarker = "ready" /\ l.videoRef /\ l.videoWidth

\* useHandTracking.ts:47-107  the browser runs the callback of the frame
\* request r.  predict either returns early or hands a sample to
\* onHandUpdate, whose state updates wait for a render, and requests the next
\* frame for itself.
LoopCallback(r) ==
  /\ r \in loop.pending
  /\ loop.callbacks < MaxCallbacks
  /\ loop' = [ loop EXCEPT
                 !.pending = requestAnimationFrame(@ \ { r }, loop.nextId,
                                                   r.predict),
                 !.requestRef = loop.nextId,
                 !.nextId = @ + 1,
                 !.callbacks = @ + 1,
                 !.samples = IF PredictSamples(loop) THEN @ + 1 ELSE @,
                 !.dirty = @ \/ PredictSamples(loop),
                 !.stale = IF r.predict # loop.render THEN @ + 1 ELSE @,
                 !.last = "callback" ]
  /\ UNCHANGED << appVars, colorVars, anim, sel, gen, ps, audio >>

\* App is unmounted: the clean-up of useHandTracking.ts:114-116 runs.
LoopUnmount ==
  /\ loop.pc = "mounted"
  /\ ~loop.effectsPending
  /\ loop' = [ loop EXCEPT
                 !.pc = "unmounted",
                 !.pending = IF loop.requestRef # 0
                             THEN cancelAnimationFrame(@, loop.requestRef)
                             ELSE @,
                 !.last = "unmount" ]
  /\ UNCHANGED << appVars, colorVars, anim, sel, gen, ps, audio >>

\* --------------------------------------- audioService.ts:3-178
\* The audio service as its fields, the state of its AudioContext, what the
\* gain of each drone node is scheduled to ramp to (thousandths), and the
\* startAmbient calls suspended at one of its two awaits.  Volumes are in
\* thousandths (MilliUnit).
freqs == << 1080, 2160, 2165 >>     \* audioService.ts:143, in tenths of a Hz
DroneLevel == 40                    \* audioService.ts:113, 164  (0.04)
UnmutedVolume == 400                \* data.ts:238  (0.4)
InitialBgmVolume == 300             \* audioService.ts:28  (0.3)

\* audioService.ts:7-51  the service after its constructor; ctx says whether
\* the browser has an AudioContext class, state is the state the context is
\* created in (suspended until a user gesture under an autoplay policy),
\* promise whether the browser's HTMLMediaElement.play() returns a promise
\* (older browsers return undefined).
AudioService(ctx, state, promise) ==
  [ pc |-> "live",
    audioCtx |-> ctx,
    ctxState |-> state,
    playPromise |-> promise,
    isMuted |-> FALSE,
    initialized |-> FALSE,
    useFallback |-> FALSE,
    droneNodes |-> << >>,
    bgmVolume |-> InitialBgmVolume,
    bgmPaused |-> TRUE,
    awaitResume |-> 0,     \* startAmbient calls waiting at line 60
    uncaught |-> 0,        \* ... those among them whose caller has no catch
    awaitPlay |-> 0,       \* startAmbient calls waiting at line 75
    threw |-> FALSE,       \* the last setVolume call threw
    toggles |-> 0,         \* clicks on the mute button so far
    last |-> "construct" ]

AudioIdle ==
  audio = [ AudioService(FALSE, "suspended", TRUE) EXCEPT !.pc = "idle" ]
AudioInit ==
  \E ctx \in BOOLEAN : \E state \in { "suspended", "running" } :
    \E promise \in BOOLEAN :
      audio = AudioService(ctx, state, promise)
\* a browser with Web Audio under an autoplay policy
AudioInitApp == audio = AudioService(TRUE, "suspended", TRUE)

InFlight(a) == a.awaitResume + a.awaitPlay

\* audioService.ts:138-169  the three oscillators are created in one
\* synchronous forEach, each gain set to 0 and ramped to 0.04
startDrone(a) ==
  IF ~a.audioCtx \/ Len(a.droneNodes) > 0
  THEN a
  ELSE [ a EXCEPT !.droneNodes = @ \o [ i \in 1..Len(freqs) |-> DroneLevel ] ]

\* audioService.ts:171-178  every node's schedule is cancelled and replaced
\* by a ramp to targetVol
toggleDroneVolume(a, targetVol) ==
  IF ~a.audioCtx
  THEN a
  ELSE [ a EXCEPT !.droneNodes = [ i \in DOMAIN @ |-> targetVol ] ]

\* audioService.ts:63-78  startAmbient from the drone to the await of the
\* promise bgm.play() returned; when play() returned undefined nothing is
\* awaited and initialized is set at once
AmbientResumed(a) ==
  LET d == startDrone(a)
  IN  IF d.useFallback
      THEN [ d EXCEPT !.initialized = TRUE ]
      ELSE IF d.playPromise
           THEN [ d EXCEPT !.bgmPaused = FALSE, !.awaitPlay = @ + 1 ]
           ELSE [ d EXCEPT !.bgmPaused = FALSE, !.initialized = TRUE ]

\* audioService.ts:55-61  startAmbient up to its first await; caught says
\* whether the caller catches a rejection of the promise startAmbient
\* returns (data.ts:232 does, data.ts:240 and audioService.ts:115 do not)
startAmbient(a, caught) ==
  IF a.initialized
  THEN a
  ELSE IF a.audioCtx /\ a.ctxState = "suspended"
       THEN [ a EXCEPT !.awaitResume = @ + 1,
                       !.uncaught = IF caught THEN @ ELSE @ + 1 ]
       ELSE AmbientResumed(a)

\* audioService.ts:105-120.  At line 117 .catch is called on what bgm.play()
\* returned: when that is undefined the call throws a TypeError, after
\* play() has run.
setVolume(a, vol) ==
  LET v == [ a EXCEPT !.bgmVolume = (vol * 6) \div 10,
                      !.isMuted = (vol = 0),
                      !.threw = FALSE ]
  IN  IF v.isMuted
      THEN [ toggleDroneVolume(v, 0) EXCEPT !.bgmPaused = TRUE ]
      ELSE LET t == toggleDroneVolume(v, DroneLevel)
           IN  IF ~t.initialized
               THEN startAmbient(t, FALSE)
               ELSE IF ~t.useFallback
                    THEN [ t EXCEPT !.bgmPaused = FALSE,
                                    !.threw = ~t.playPromise ]
                    ELSE t

\* data.ts:231-233  a click or a pointer-down anywhere on the page
handleInteraction ==
  /\ audio.pc = "live"
  /\ InFlight(audio) < MaxCalls
  /\ audio' = [ startAmbient(audio, TRUE) EXCEPT !.last = "interaction" ]
  /\ UNCHANGED << appVars, colorVars, anim, sel, gen, ps, loop >>

\* data.ts:235-245  a click on the mute button.  React renders the update of
\* a click before the next click is handled, so the handler reads the
\* isMuted the previous click set; the closure of handleHandUpdate gets it
\* with the effects of the next commit.  A setVolume that throws ends the
\* handler before setIsMuted.
toggleMute ==
  /\ audio.pc = "live"
  /\ Running
  /\ audio.toggles < MaxToggles
  /\ st.isMuted => InFlight(audio) + 2 <= MaxCalls
  /\ LET a == setVolume(audio, IF st.isMuted THEN UnmutedVolume ELSE 0)
         v == [ a EXCEPT !.toggles = @ + 1 ]
     IN  /\ audio' =
              IF v.threw
              THEN [ v EXCEPT !.last = "unmute threw" ]
              ELSE IF st.isMuted
                   THEN [ startAmbient(v, FALSE) EXCEPT !.last = "unmute" ]
                   ELSE [ v EXCEPT !.last = "mute" ]
         /\ st' = [ st EXCEPT !.isMuted = IF v.threw THEN @ ELSE ~@ ]
  /\ ev' = NoEvent("toggleMute")
  /\ UNCHANGED << committed, handler, effectsPending, rafPending, videoRefSet,
                  tracker, now, lastPhraseTime, inflight, fault, prevSample,
                  sampleCount >>
  /\ UNCHANGED << colorVars, anim, sel, gen, ps, loop >>

\* audioService.ts:60-61  audioCtx.resume() settles for one waiting
\* startAmbient call, one whose caller has no catch when bare: fulfilled, the
\* context runs and the call goes on; rejected, the call ends there, line 60
\* being outside the try block, and the rejection of a bare call is unhandled
AudioResumeSettled(ok, bare) ==
  /\ audio.pc = "live"
  /\ IF bare THEN audio.uncaught > 0
             ELSE audio.awaitResume > audio.uncaught
  /\ audio' =
       LET a == [ audio EXCEPT !.awaitResume = @ - 1,
                               !.uncaught = IF bare THEN @ - 1 ELSE @ ]
       IN  IF ok
           THEN [ AmbientResumed([ a EXCEPT !.ctxState = "running" ])
                    EXCEPT !.last = "resumed" ]
           ELSE [ a EXCEPT !.last = "resume rejected" ]
  /\ fault' = IF ~ok /\ bare /\ fault = "none" THEN "rejection" ELSE fault
  /\ UNCHANGED << st, committed, handler, effectsPending, rafPending,
                  videoRefSet, tracker, now, lastPhraseTime, inflight,
                  prevSample, sampleCount, ev >>
  /\ UNCHANGED << colorVars, anim, sel, gen, ps, loop >>

\* audioService.ts:75-82  the promise of bgm.play() settles for one waiting
\* startAmbient call: fulfilled, initialized is set; rejected (the autoplay
\* policy, or a pause() before playback began), nothing is set
AudioPlaySettled(ok) ==
  /\ audio.pc = "live"
  /\ audio.awaitPlay > 0
  /\ audio' = [ audio EXCEPT !.awaitPlay = @ - 1,
                             !.initialized = @ \/ ok,
                             !.last = IF ok THEN "played" ELSE "play rejected" ]
  /\ UNCHANGED << appVars, colorVars, anim, sel, gen, ps, loop >>

\* audioService.ts:43-50  one of the audio elements fails to load
handleLoadError ==
  /\ audio.pc = "live"
  /\ ~audio.useFallback
  /\ audio' = [ audio EXCEPT !.useFallback = TRUE, !.last = "load error" ]
  /\ UNCHANGED << appVars, colorVars, anim, sel, gen, ps, loop >>

\* ------------------------------------------------------- specifications
Init ==
  AppInit /\ ColorIdle /\ AnimIdle /\ SelIdle /\ GenIdle /\ PsIdle
    /\ LoopIdle /\ AudioInitApp

Next ==
  \/ \E res \in TrackerResults : Sample(res)
  \/ Render
  \/ MountEffects
  \/ FlushEffects
  \/ InitSuccess
  \/ InitFail
  \/ \E i \in 1..Len(inflight), o \in ServiceOutcomes : Respond(i, o)
  \/ Tick
  \/ toggleMute

Spec == Init /\ [][Next]_vars

\* getSafeColor on every palette and index of the bounded input sets
InitColor ==
  AppInit /\ ColorInit /\ AnimIdle /\ SelIdle /\ GenIdle /\ PsIdle
    /\ LoopIdle /\ AudioIdle
NextColor == GetSafeColor
SpecColor == InitColor /\ [][NextColor]_vars

\* the animation driver; the frame loop runs on every frame
InitAnim ==
  AppInit /\ ColorIdle /\ AnimInit /\ SelIdle /\ GenIdle /\ PsIdle
    /\ LoopIdle /\ AudioIdle
NextAnim ==
  \/ Frame
  \/ \E e \in { 0, ExpUnit \div 2, ExpUnit } : SetExpansion(e)
SpecAnim == InitAnim /\ [][NextAnim]_vars /\ WF_vars(Frame)

\* the selection loop; a fair random source does not return the current
\* body's index forever
InitSelect ==
  AppInit /\ ColorIdle /\ AnimIdle /\ SelInit /\ GenIdle /\ PsIdle
    /\ LoopIdle /\ AudioIdle
NextSelect ==
  \/ SelectCall
  \/ \E r \in RandomValues : SelectDraw(r)
  \/ SelectRender
  \/ SelectEffects
SpecSelect == InitSelect /\ [][NextSelect]_vars /\ SF_vars(DrawEnds)

\* the generator on every descriptor, probe index and draw
InitGen ==
  AppInit /\ ColorIdle /\ AnimIdle /\ SelIdle /\ GenInit /\ PsIdle
    /\ LoopIdle /\ AudioIdle
NextGen == Generate
SpecGen == InitGen /\ [][NextGen]_vars

\* the mounted component: renders with other props, and frames
InitParticles ==
  AppInit /\ ColorIdle /\ AnimIdle /\ SelIdle /\ GenIdle /\ PsInit
    /\ LoopIdle /\ AudioIdle
NextParticles ==
  \/ \E p \in PsProps, d \in PsDraws : PsRender(p, d)
  \/ PsFrame
SpecParticles == InitParticles /\ [][NextParticles]_vars

\* the prediction loop under renders, effects, callbacks and the unmount
InitLoop ==
  AppInit /\ ColorIdle /\ AnimIdle /\ SelIdle /\ GenIdle /\ PsIdle
    /\ LoopInit /\ AudioIdle
NextLoop ==
  \/ LoopMountEffects
  \/ LoopEffects
  \/ \E ok \in BOOLEAN : LoopLandmarker(ok)
  \/ LoopVideo
  \/ LoopSetState
  \/ LoopRender
  \/ \E r \in loop.pending : LoopCallback(r)
  \/ LoopUnmount
SpecLoop == InitLoop /\ [][NextLoop]_vars

\* the audio service under clicks, mute toggles and settling promises
InitAudio ==
  AppInit /\ ColorIdle /\ AnimIdle /\ SelIdle /\ GenIdle /\ PsIdle
    /\ LoopIdle /\ AudioInit
NextAudio ==
  \/ handleInteraction
  \/ toggleMute
  \/ \E ok \in BOOLEAN, bare \in BOOLEAN : AudioResumeSettled(ok, bare)
  \/ \E ok \in BOOLEAN : AudioPlaySettled(ok)
  \/ handleLoadError
SpecAudio == InitAudio /\ [][NextAudio]_vars

\* ================================================================ claims

SampleStep == sampleCount' # sampleCount

\* C1 (as stated): on a sample that is a closed -> open transition of the
\* stream, triggerNewPhrase changes nothing (phrase, cache, lastPhraseTime)
\* when less than COOLDOWN_MS passed since the last accepted trigger and is
\* accepted otherwise; a sample that is no such transition accepts nothing,
\* so each edge is accepted exactly once.
C1_CooldownPerEdge ==
  [][ SampleStep =>
        /\ (ev'.rising /\ InCooldown(now, lastPhraseTime)) =>
             /\ ~ev'.trigAccepted
             /\ lastPhraseTime' = lastPhraseTime
             /\ st'.currentPhrase = st.currentPhrase
             /\ st'.phrasesCache = st.phrasesCache
        /\ (ev'.rising /\ ~InCooldown(now, lastPhraseTime)) => ev'.trigAccepted
        /\ ~ev'.rising => ~ev'.trigAccepted ]_vars

\* C2 (as stated): changeCelestialBody is called on a sample exactly when
\* that sample is an open -> closed transition of the sample stream.
C2_BodyChangePerFallingEdge ==
  ev.kind = "sample" => (ev.bodyCall <=> ev.falling)

\* C3 (as stated): the body a call of changeCelestialBody sets differs from
\* the currentBody the call compares against and from the body displayed
\* immediately before the call.
C3_NeverSameBody ==
  [][ (SampleStep /\ ev'.bodyCall) =>
        /\ st'.currentBody # handler.currentBody
        /\ st'.currentBody # committed.currentBody ]_vars

\* C4 (as stated): getSafeColor returns white for the empty palette and
\* P[clamp(floor(idx), 0, len-1)] for a non-empty one, for every index:
\* floor(+infinity) clamps to len-1, floor(-infinity) to 0, and for NaN the
\* result is some colour of the palette.
C4_ClampedFloorForEveryIndex ==
  colorOut # "pending" =>
    LET P == colorIn.colors
        x == colorIn.idx
    IN IF Len(P) = 0 THEN colorOut = WHITE
       ELSE CASE x.kind = "posinf" -> colorOut = P[Len(P)]
              [] x.kind = "neginf" -> colorOut = P[1]
              [] x.kind = "nan" -> \E k \in 1..Len(P) : colorOut = P[k]
              [] OTHER ->
                   \E f \in (Floor(x) - 1)..(Floor(x) + 1) :
                     /\ 2 * f <= x.halves /\ x.halves < 2 * f + 2
                     /\ colorOut = P[(IF f < 0 THEN 0 ELSE
                                      IF f > Len(P) - 1 THEN Len(P) - 1 ELSE f) + 1]

\* C4 (amended): getSafeColor returns white for the empty palette; for a
\* non-empty palette it returns P[0] when the index is NaN or an infinity,
\* and P[clamp(floor(idx), 0, len-1)] when the index is finite.
C4_SamplerTotal ==
  colorOut # "pending" =>
    LET P == colorIn.colors
        x == colorIn.idx
    IN IF Len(P) = 0 THEN colorOut = WHITE
       ELSE IF x.kind # "finite" THEN colorOut = P[1]
       ELSE \E f \in (-2)..(MaxPalette + 2) :
              /\ 2 * f <= x.halves /\ x.halves < 2 * f + 2
              /\ colorOut = P[(IF f < 0 THEN 0 ELSE
                               IF f > Len(P) - 1 THEN Len(P) - 1 ELSE f) + 1]

C4_Witness ==
  /\ colorOut # "pending"
  /\ Len(colorIn.colors) >= 2
  /\ colorIn.idx = PosInf
  /\ colorIn.colors[1] # colorIn.colors[Len(colorIn.colors)]

\* C5: expansion stays within [0, 1]; a gesture sample changes it by exactly
\* 0.1 * (target - previous), target 1 for an open sample and 0 otherwise,
\* so it never reaches a target it was not at; nothing else changes it.
C5_ExpansionSmoothing ==
  [][ /\ st'.expansion \in 0..Scale
      /\ IF SampleStep
         THEN LET target == IF prevSample' THEN Scale ELSE 0
              IN /\ 10 * (st'.expansion - st.expansion) = target - st.expansion
                 /\ st.expansion # target => st'.expansion # target
         ELSE st'.expansion = st.expansion ]_vars

C5_Witness ==
  /\ ev.kind = "sample"
  /\ sampleCount >= 2
  /\ st.expansion \notin { 0, Scale }
  /\ prevSample

\* the oscillation amplitude at full expansion, 0.2 * (0.8 + 0.02)
JitterAtFull == 2 * (80 * ExpUnit + 20)

Epsilon == AnimUnit \div 200

\* C6 (as stated): with expansion held at 1, the live coordinate eventually
\* stays within epsilon of the origin coordinate (here epsilon = 0.005).
C6_ConvergesToOrigin ==
  <>[](anim.expansion = ExpUnit) =>
    <>[](Abs(anim.live - anim.origin) <= Epsilon)

\* C6 (amended): with expansion held at 1, the live coordinate eventually
\* stays within epsilon of the band of half-width 0.2 * (0.8 + 0.02) = 0.164
\* (the oscillation amplitude) around the origin coordinate.
C6_ConvergesWithinJitter ==
  <>[](anim.expansion = ExpUnit) =>
    <>[](Abs(anim.live - anim.origin) <= JitterAtFull + Epsilon)

C6_Witness ==
  /\ anim.expansion = ExpUnit
  /\ anim.phase # 0
  /\ Abs(anim.live - anim.origin) > Epsilon
  /\ Abs(anim.live - anim.origin) <= JitterAtFull

\* C7 (as stated): when triggerNewPhrase consumed a cached phrase and fewer
\* than LOW_WATER phrases remain in the cache, a top-up request was issued.
C7_TopUpBelowLowWater ==
  (ev.consumed /\ Len(st.phrasesCache.items) < LOW_WATER) => ev.issued > 0

\* C8 (as stated): at no time are two generateCreativePhrases calls
\* outstanding.
C8_SingleRequestInFlight == Len(inflight) <= 1

\* C9 (as stated): generateCreativePhrases always resolves to a list of
\* strings, and neither triggerNewPhrase nor the prefetch raises an error.
C9_AlwaysResolvesToList ==
  /\ ev.kind = "respond" => IsList(ev.resolved)
  /\ fault = "none"

\* C10: once initLandmarker has failed the error is not set again, the
\* prediction loop is not scheduled, no sample was or can be delivered, the
\* queued and the displayed state keep expansion 1, hand open, rotation
\* (0,0) and the first body, no phrase was triggered by a gesture, no cue was
\* played, and the frame loop can still run.
C10_IdleAfterInitFailure ==
  tracker = "failed" =>
    /\ st.error /\ ~st.isReady
    /\ ~ENABLED InitFail
    /\ ~rafPending
    /\ sampleCount = 0
    /\ \A res \in TrackerResults : ~ENABLED Sample(res)
    /\ \A s \in { st, committed } :
         /\ s.expansion = Scale
         /\ s.isHandOpen
         /\ s.handRotation = << 0, 0 >>
         /\ s.currentBody = CELESTIAL_BODIES[1]
         /\ s.currentPhrase = InitialState.currentPhrase
    /\ lastPhraseTime = 0
    /\ \A i \in 1..Len(inflight) : inflight[i].kind = "prefetch"
    /\ ~ev.expandCue /\ ~ev.contractCue /\ ~ev.bodyCall /\ ~ev.trigCall
    /\ ENABLED Frame

C10_Witness ==
  /\ tracker = "failed"
  /\ committed.error
  /\ ~effectsPending

\* C14: while audio is not muted, each closed->open transition of the
\* gesture stream calls the expand cue exactly once, each open->closed
\* transition calls the contract cue exactly once, and a sample that is not a
\* transition calls no cue; while the audio service is muted no cue starts a
\* sound.
C14_CuePerTransition ==
  ev.kind = "sample" =>
    /\ ~st.isMuted => /\ ev.expandCue <=> ev.rising
                      /\ ev.contractCue <=> ev.falling
    /\ audio.isMuted => ~ev.expandPlayed /\ ~ev.contractPlayed

\* C15 (as stated): the body selection terminates and the number of random
\* re-draws (draws after the first) of one call is at most the catalog size.
C15_RedrawsBoundedByCatalog ==
  /\ [](sel.draws - 1 <= Len(Catalog))
  /\ (sel.pc = "drawing") ~> (sel.pc = "done")

\* C15 (amended): with a random source that does not return the current
\* body's index forever, every call of the selection ends; the number of
\* re-draws has no bound.
C15_TerminatesWithFairDraws == (sel.pc = "drawing") ~> (sel.pc = "done")

\* a call that re-drew and then ended on another body
C15_Witness ==
  sel.pc = "done" /\ sel.draws > 1 /\ sel.newBody # sel.current

\* ---------------------------------------------------- the generator
\* distances are measured to a thousandth and compared to a hundredth
Tolerance == AnimUnit \div 100
Norm(pos) ==
  10 * Sqrt((pos[1] \div 10) * (pos[1] \div 10)
              + (pos[2] \div 10) * (pos[2] \div 10)
              + (pos[3] \div 10) * (pos[3] \div 10))
Near(a, b) == Abs(a - b) <= Tolerance
Generated == gen.pc = "done"
SingleBody == Generated /\ gen.out.layout = "single"
NoRingPalette ==
  gen.body.hasRings /\ gen.body.ringColors \in { Undefined, List(<< >>) }

\* the floor(0.35 * N) highest indices
RingShare == (35 * count) \div 100
InRingShare == gen.idx >= count - RingShare

\* the ring annulus of the descriptor's radius: horizontal distance between
\* 1.3 and 2.2 radii, vertical offset at most 0.05
InAnnulus ==
  LET t == gen.out.target
      dist == Norm(<< t[1], 0, t[3] >>)
  IN /\ dist >= (gen.body.radius * 13) \div 10 - Tolerance
     /\ dist <= (gen.body.radius * 22) \div 10 + Tolerance
     /\ Abs(t[2]) <= (5 * AnimUnit) \div 100

\* C11 (as stated): in the single-body layout, a descriptor with hasRings and
\* an empty or absent ring palette gets no ring allocation: no particle is
\* placed in the ring annulus and all N particles are body-sphere particles.
C11_NoRingWithoutPalette ==
  (SingleBody /\ NoRingPalette) =>
    /\ gen.out.kind = "body"
    /\ Near(Norm(gen.out.target), gen.body.radius)

\* the draw puts the ring particle in the gap band: its normalised radial
\* position is strictly between 0.6 and 0.65
InGapBand == gen.d.t1 > 600 /\ gen.d.t1 < 650

\* C11 (amended): such a descriptor still gets its ring allocation: the
\* floor(0.35 * N) highest indices are placed in the ring annulus, coloured
\* with the safe default white, which is darkened to one fifth in the gap
\* band and left as it is elsewhere, and the other indices are body-sphere
\* particles.
C11_WhiteRingWithoutPalette ==
  (SingleBody /\ NoRingPalette) =>
    IF InRingShare
    THEN /\ gen.out.kind = "ring"
         /\ InAnnulus
         /\ gen.out.color = Colour(WHITE, IF InGapBand THEN "x0.2" ELSE "")
    ELSE gen.out.kind = "body" /\ Near(Norm(gen.out.target), gen.body.radius)

\* a ring particle in the gap band, generated for a ringed descriptor
\* without a palette
C11_Witness ==
  SingleBody /\ NoRingPalette /\ gen.body.ringColors = Undefined
    /\ InRingShare /\ gen.out.kind = "ring" /\ InGapBand
    /\ gen.out.color.mod = "x0.2"

\* C12 (as stated): for every catalog body other than the star, the Earth
\* included, every non-ring target position lies on the sphere of the
\* descriptor's radius.
C12_BodyOnSphere ==
  (SingleBody /\ gen.body \in CatalogBodies /\ gen.out.kind # "ring") =>
    Near(Norm(gen.out.target), gen.body.radius)

\* C12 (amended): every non-ring target position lies on the sphere of the
\* descriptor's radius, except the cloud particles of the Earth, which lie
\* on the sphere of 1.04 times the radius.
C12_BodyOnSphereOrCloud ==
  (SingleBody /\ gen.body \in CatalogBodies /\ gen.out.kind # "ring") =>
    IF gen.out.kind = "cloud"
    THEN /\ gen.body.name = "Earth"
         /\ Near(Norm(gen.out.target), (gen.body.radius * 104) \div 100)
    ELSE Near(Norm(gen.out.target), gen.body.radius)

\* an Earth particle lifted into the cloud layer
C12_Witness ==
  SingleBody /\ gen.body.name = "Earth" /\ gen.out.kind = "cloud"

\* C13: in the single-body layout with hasRings, exactly the floor(0.35 * N)
\* highest indices are ring particles, and every ring particle's target has
\* a horizontal radial distance between 1.3 and 2.2 radii and a vertical
\* offset of magnitude at most 0.05, for every random draw.
C13_RingShareInAnnulus ==
  (SingleBody /\ gen.body.hasRings) =>
    /\ gen.out.kind = "ring" <=> InRingShare
    /\ gen.out.kind = "ring" => InAnnulus

\* the lowest ring index of a catalog body with rings, at the draws next to
\* the outer edge and the lower face of the annulus
C13_Witness ==
  SingleBody /\ gen.body.name = "Saturn" /\ gen.idx = count - RingShare
    /\ gen.out.kind = "ring" /\ gen.d.t1 = 999 /\ gen.d.t3 = 0

\* C18: a regeneration assigns a target to every index in [0, N), N = 64000:
\* the groups are written one after the other from index 0 to index N, the
\* write index never exceeds N, the composite layout writes the core
\* (20000), the orbit guides (10 x floor(9000 / 10)), the debris (8000) and
\* the per-body groups, and an index outside those groups has the origin as
\* its target.
C18_EveryIndexAssigned ==
  Generated =>
    LET g == gen.out.groups
        size(kind) ==
          LET ks == { k \in 1..Len(g) : g[k].kind = kind }
          IN [ n |-> Cardinality(ks),
               each |-> { g[k].to - g[k].from : k \in ks } ]
    IN /\ count = 64000
       /\ g[1].from = 0
       /\ \A k \in 1..(Len(g) - 1) : g[k].to = g[k + 1].from
       /\ \A k \in 1..Len(g) : g[k].from <= g[k].to /\ g[k].to <= count
       /\ g[Len(g)].to = count
       /\ gen.out.kind # "none"
       /\ gen.out.layout = "composite" =>
            /\ size("core") = [ n |-> 1, each |-> { 20000 } ]
            /\ size("orbit") = [ n |-> 10, each |-> { 9000 \div 10 } ]
            /\ size("debris") = [ n |-> 1, each |-> { 8000 } ]
            /\ size("planet").n = Len(BODY_CONFIGS) - 1
            /\ gen.out.kind \in { "core", "orbit", "debris", "planet",
                                  "planetRing" }
                 \/ gen.out.target = << 0, 0, 0 >>

\* the last index, written by the last per-body group of the composite layout
C18_Witness ==
  Generated /\ gen.out.layout = "composite" /\ gen.idx = count - 1
    /\ gen.out.kind = "planet"

\* --------------------------------------- the mounted component's claims
\* the step that led to this state
BodyChanged == ps.last.op = "change"
FrameRan == ps.last.op = "frame"

\* C16 (as stated): after any number of body changes originPosition[i] and
\* seed[i] equal the values generated at first construction.
C16_OriginComputedOnce ==
  ps.pc = "mounted" =>
    /\ ps.memo.initialPositions.v = ps.first.initialPositions.v
    /\ ps.memo.randoms.v = ps.first.randoms.v

\* C16 (amended): the origin cloud and the seeds are drawn afresh, from the
\* random source alone, on the first construction and on every body change,
\* and keep those values through frames and through re-renders that do not
\* change the body.
C16_OriginRedrawnPerBodyChange ==
  /\ ps.last.op \in { "mount", "change" } =>
        /\ ps.memo.run = ps.last.memoBefore.run + 1
        /\ ps.memo.initialPositions
             = Array(ps.memo.run, OriginPosition(ps.last.draws))
        /\ ps.memo.randoms = Array(ps.memo.run, Seeds(ps.last.draws))
  /\ ps.last.op \in { "rerender", "frame" } =>
        /\ ps.memo.initialPositions = ps.last.memoBefore.initialPositions
        /\ ps.memo.randoms = ps.last.memoBefore.randoms

C16_Witness ==
  /\ BodyChanged
  /\ ps.memo.initialPositions.v # ps.first.initialPositions.v
  /\ ps.memo.randoms.v # ps.first.randoms.v

\* C17 (as stated): a body change does not modify livePosition; it changes
\* only by the driver's fractional step per frame.
C17_LiveWrittenOnlyByFrames ==
  /\ BodyChanged => ps.currentPositions.v = ps.last.before
  /\ FrameRan =>
        \A k \in 1..3 :
          ps.currentPositions.v[k] - ps.last.before[k]
            = LerpStep(ps.last.goal[k] - ps.last.before[k])

\* C17 (amended): a frame moves each coordinate of livePosition by the
\* driver's fractional step, a re-render that keeps the body leaves it
\* alone, and a body change resets it to the new origin position.
C17_LiveResetOnBodyChange ==
  /\ BodyChanged => ps.currentPositions.v = ps.memo.initialPositions.v
  /\ ps.last.op = "rerender" => ps.currentPositions.v = ps.last.before
  /\ FrameRan =>
        \A k \in 1..3 :
          ps.currentPositions.v[k] - ps.last.before[k]
            = LerpStep(ps.last.goal[k] - ps.last.before[k])

C17_Witness ==
  /\ BodyChanged
  /\ ps.frames > 0
  /\ ps.currentPositions.v # ps.last.before

\* the three treatments of the claim, as the last render and frame applied
\* them
CompositeApplied == ps.memo.layout = "composite"
SlowRotationApplied ==
  ps.last.baseRotationSpeed = (5 * DeltaMicro) \div 100
FastRotationApplied ==
  ps.last.baseRotationSpeed = (10 * DeltaMicro) \div 100
OscillationFloor == ps.last.intensity - ps.callback.props.expansion * 80

\* C19 (as stated): the composite layout, the slower base rotation and the
\* raised oscillation floor below expansion 0.1 are applied if and only if
\* the descriptor's category is star, whatever its name.
C19_StarByCategory ==
  /\ ps.pc = "mounted" =>
        (CompositeApplied <=> ps.memo.body.type = "star")
  /\ FrameRan =>
        /\ SlowRotationApplied <=> ps.callback.props.body.type = "star"
        /\ OscillationFloor = 50
             <=> /\ ps.callback.props.body.type = "star"
                 /\ ps.callback.props.expansion < 1

\* C19 (amended): the composite layout and the slower base rotation are
\* applied if and only if the descriptor's name is "Sun"; the raised
\* oscillation floor below expansion 0.1 if and only if its category is
\* star.
C19_SunByNameFloorByCategory ==
  /\ ps.pc = "mounted" =>
        /\ CompositeApplied <=> ps.memo.body.name = "Sun"
        /\ ~CompositeApplied <=> ps.memo.layout = "single"
  /\ FrameRan =>
        /\ SlowRotationApplied <=> ps.callback.props.body.name = "Sun"
        /\ FastRotationApplied <=> ps.callback.props.body.name # "Sun"
        /\ OscillationFloor = 50
             <=> /\ ps.callback.props.body.type = "star"
                 /\ ps.callback.props.expansion < 1
        /\ OscillationFloor \in { 20, 50 }

C19_Witness ==
  /\ FrameRan
  /\ ps.callback.props.body = OtherStar
  /\ ps.callback.props.expansion = 0
  /\ ~CompositeApplied
  /\ FastRotationApplied
  /\ OscillationFloor = 50

\* C20: every frame reads origin, target, colour and seed arrays, and a live
\* buffer last reset, that one completed run of the generator produced for
\* the descriptor the frame dispatches on.
C20_FrameReadsOneRegeneration ==
  FrameRan =>
    /\ ps.last.reads.initialPositions >= 1
    /\ ps.last.reads.targetPositions = ps.last.reads.initialPositions
    /\ ps.last.reads.randoms = ps.last.reads.initialPositions
    /\ ps.last.reads.colors = ps.last.reads.initialPositions
    /\ ps.last.reads.positions = ps.last.reads.initialPositions
    /\ ps.last.reads.body = ps.callback.memo.body.name
    /\ ps.callback.memo.layout # ""

C20_Witness ==
  /\ FrameRan
  /\ ps.runs >= 2
  /\ ps.last.reads.initialPositions = ps.runs
  /\ ps.last.reads.body # ps.first.body.name

\* C21 (as stated): a sample taken while the tracker returns no hand is open
\* at position (0.5, 0.5), so it sets rotation influence (0, 0), has
\* expansion target 1 and never calls changeCelestialBody; when the sample
\* before it was closed it is handled as a closed -> open transition:
\* triggerNewPhrase is called and, unless muted, the expand cue.
C21_NoHandIsOpenSample ==
  ev.kind = "sample" /\ ev.noHand =>
    /\ st.isHandOpen
    /\ st.handRotation = << 0, 0 >>
    /\ ev.target = Scale
    /\ ~ev.bodyCall
    /\ ev.rising => /\ ev.trigCall
                    /\ ~st.isMuted => ev.expandCue

\* the loop effect of a render that saw isReady has run, with the video
\* element in videoRef
LoopStarted ==
  /\ loop.pc = "mounted"
  /\ loop.landmarker = "ready"
  /\ loop.committedReady
  /\ loop.videoRef
  /\ ~loop.effectsPending

\* C22: at most one frame request of the prediction loop is pending at any
\* time; once the landmarker is ready, the video element is set and the loop
\* effect has run, a request is pending, and no render, effect clean-up or
\* callback leaves the loop without a pending request while App is mounted.
C22_OneLoopNeverStopped ==
  /\ [](Cardinality(loop.pending) <= 1)
  /\ [](LoopStarted => loop.pending # { })
  /\ [][loop.pending # { } /\ loop'.pc = "mounted"
         => loop'.pending # { }]_vars

C22_Witness ==
  /\ loop.pc = "mounted"
  /\ loop.render >= 3
  /\ loop.stale >= 1
  /\ loop.samples >= 2
  /\ loop.last = "effects"
  /\ \E r \in loop.pending : r.predict = loop.render /\ r.id = loop.requestRef

\* C23 (as stated): under any interleaving of startAmbient and setVolume
\* calls the drone oscillators are created at most once (droneNodes holds 0
\* or exactly 3 nodes), and while the service is muted no drone gain is
\* scheduled to ramp to a non-zero level.
C23_DroneOnceSilentWhenMuted ==
  /\ Len(audio.droneNodes) \in { 0, 3 }
  /\ audio.isMuted =>
       \A i \in DOMAIN audio.droneNodes : audio.droneNodes[i] = 0

====
